---- MODULE Spec2Model ----
(***************************************************************************)
(* TOON encoder / decoder / validator of backend/core/toon_encoder.py,     *)
(* extract_resource of backend/core/utils.py and the file cache of         *)
(* backend/core/cache.py.                                                  *)
(*                                                                         *)
(* Text is a sequence of one-character strings.  A Value is a record       *)
(* tagged by t:                                                            *)
(*   [t |-> "null"], [t |-> "bool", b], [t |-> "int", dec],                *)
(*   [t |-> "float", rep], [t |-> "str", s], [t |-> "list", items],        *)
(*   [t |-> "obj", keys, vals]                                             *)
(* An int is held as its canonical decimal text (Python ints are           *)
(* unbounded, str() and int() are a bijection on canonical text); a float  *)
(* is held as the text str() gives it.  A dict is its key sequence, in     *)
(* insertion order and without repeats, with the value sequence beside it. *)
(* A call that raises returns [t |-> "raise", exc].                        *)
(***************************************************************************)
EXTENDS Integers, Sequences, FiniteSets, TLC

(***************************************************************************)
(* Characters and text helpers (Python str methods)                       *)
(***************************************************************************)
Digits == {"0", "1", "2", "3", "4", "5", "6", "7", "8", "9"}

LowerSeq == <<"a", "b", "c", "d", "e", "f", "g", "h", "i", "j", "k", "l", "m",
              "n", "o", "p", "q", "r", "s", "t", "u", "v", "w", "x", "y", "z">>

UpperSeq == <<"A", "B", "C", "D", "E", "F", "G", "H", "I", "J", "K", "L", "M",
              "N", "O", "P", "Q", "R", "S", "T", "U", "V", "W", "X", "Y", "Z">>

LowerLetters == {LowerSeq[i] : i \in 1..26}

UpperLetters == {UpperSeq[i] : i \in 1..26}

\* the characters str.strip() removes, among those of the texts of this model
Whitespace == {" ", "\t", "\n", "\r"}

\* the line boundaries of str.splitlines() and of ^ and $ under re.MULTILINE
\* that occur in the texts of this model
LineBreak == "\n"

SetMin(S) == CHOOSE x \in S : \A y \in S : x <= y

SetMax(S) == CHOOSE x \in S : \A y \in S : x >= y

\* s.strip(chars): the first and last kept positions are found by a linear scan
StripChars(s, chars) ==
    IF \A i \in 1..Len(s) : s[i] \in chars THEN <<>>
    ELSE LET a == CHOOSE i \in 1..Len(s) :
                      s[i] \notin chars /\ \A j \in 1..(i - 1) : s[j] \in chars
             b == CHOOSE i \in 1..Len(s) :
                      s[i] \notin chars /\ \A j \in (i + 1)..Len(s) : s[j] \in chars
         IN  SubSeq(s, a, b)

\* str.strip()
Strip(s) == StripChars(s, Whitespace)

LowerChar(c) ==
    IF c \in UpperLetters
    THEN LowerSeq[CHOOSE i \in 1..26 : UpperSeq[i] = c]
    ELSE c

\* str.lower()
Lower(s) == [i \in 1..Len(s) |-> LowerChar(s[i])]

\* str.startswith / str.endswith for a one-character argument
StartsWith(s, c) == Len(s) >= 1 /\ s[1] = c

EndsWith(s, c) == Len(s) >= 1 /\ s[Len(s)] = c

RECURSIVE Join(_, _)
\* sep.join(parts)
Join(parts, sep) ==
    IF parts = <<>> THEN <<>>
    ELSE IF Len(parts) = 1 THEN parts[1]
    ELSE parts[1] \o sep \o Join(Tail(parts), sep)

RECURSIVE EscapeQuotes(_)
\* s.replace('"', '\\"')
EscapeQuotes(s) ==
    IF s = <<>> THEN <<>>
    ELSE (IF s[1] = "\"" THEN <<"\\", "\"">> ELSE <<s[1]>>) \o EscapeQuotes(Tail(s))

RECURSIVE UnescapeQuotes(_)
\* s.replace('\\"', '"'): leftmost, non-overlapping
UnescapeQuotes(s) ==
    IF s = <<>> THEN <<>>
    ELSE IF Len(s) >= 2 /\ s[1] = "\\" /\ s[2] = "\""
         THEN <<"\"">> \o UnescapeQuotes(SubSeq(s, 3, Len(s)))
         ELSE <<s[1]>> \o UnescapeQuotes(Tail(s))

(***************************************************************************)
(* The Value model                                                         *)
(***************************************************************************)
VNull == [t |-> "null"]

VBool(b) == [t |-> "bool", b |-> b]

VInt(dec) == [t |-> "int", dec |-> dec]

VFloat(rep) == [t |-> "float", rep |-> rep]

VStr(s) == [t |-> "str", s |-> s]

VList(items) == [t |-> "list", items |-> items]

VObj(keys, vals) == [t |-> "obj", keys |-> keys, vals |-> vals]

Raise(exc) == [t |-> "raise", exc |-> exc]

\* a text returned by a call that can also raise
Text(s) == [t |-> "text", s |-> s]

IsDict(v) == v.t = "obj"

IsList(v) == v.t = "list"

\* dict.get(k): the value under k, None when k is absent
DictGet(o, k) ==
    IF \E i \in 1..Len(o.keys) : o.keys[i] = k
    THEN o.vals[CHOOSE i \in 1..Len(o.keys) : o.keys[i] = k]
    ELSE VNull

\* d[k] = v: an existing key keeps its place, a new key goes last
DictSet(o, k, v) ==
    IF \E i \in 1..Len(o.keys) : o.keys[i] = k
    THEN VObj(o.keys, [o.vals EXCEPT ![CHOOSE i \in 1..Len(o.keys) : o.keys[i] = k] = v])
    ELSE VObj(Append(o.keys, k), Append(o.vals, v))

RECURSIVE DictZip(_, _, _)
\* dict(zip(keys, vals)) added to o: stops at the shorter of the two
DictZip(o, keys, vals) ==
    IF keys = <<>> \/ vals = <<>> THEN o
    ELSE DictZip(DictSet(o, keys[1], vals[1]), Tail(keys), Tail(vals))

(***************************************************************************)
(* ToonEncoder                                                             *)
(***************************************************************************)
\* the characters that force quotes
SpecialChars == {",", "[", "]", "{", "}", "\n", "\r", "\""}

\* the lower-cased strings that force quotes
LiteralWords == {<<"t", "r", "u", "e">>, <<"f", "a", "l", "s", "e">>,
                 <<"n", "u", "l", "l">>, <<"n", "o", "n", "e">>}

\* re.match(r"^-?\d", s)
LooksNumeric(s) ==
    \/ Len(s) >= 1 /\ s[1] \in Digits
    \/ Len(s) >= 2 /\ s[1] = "-" /\ s[2] \in Digits

Quoted(s) == <<"\"">> \o s \o <<"\"">>

\* the str branch of encode_value
encode_str(s) ==
    IF LooksNumeric(s) THEN Quoted(s)
    ELSE IF \E i \in 1..Len(s) : s[i] \in SpecialChars THEN Quoted(EscapeQuotes(s))
    ELSE IF Lower(s) \in LiteralWords THEN Quoted(s)
    ELSE s

RECURSIVE encode_value(_)
encode_value(v) ==
    CASE v.t = "null"  -> <<"n", "u", "l", "l">>
      [] v.t = "bool"  -> IF v.b THEN <<"t", "r", "u", "e">> ELSE <<"f", "a", "l", "s", "e">>
      [] v.t = "int"   -> v.dec
      [] v.t = "float" -> v.rep
      [] v.t = "list"  ->
            <<"[">> \o Join([i \in 1..Len(v.items) |-> encode_value(v.items[i])], <<",", " ">>)
                    \o <<"]">>
      [] v.t = "obj"   ->
            <<"{">> \o Join([i \in 1..Len(v.keys) |->
                                v.keys[i] \o <<":", " ">> \o encode_value(v.vals[i])],
                            <<",", " ">>)
                    \o <<"}">>
      [] v.t = "str"   -> encode_str(v.s)

\* name{k1,...,kn}, or {k1,...,kn} when the name is None or empty
Header(name, keys) == name \o <<"{">> \o Join(keys, <<",">>) \o <<"}">>

\* mutant of Row: every item is written under its own keys
Row_OwnKeys(keys, it) ==
    IF IsDict(it)
    THEN Join([j \in 1..Len(it.keys) |-> encode_value(it.vals[j])], <<",">>)
    ELSE <<>>

\* one data row: the cells of item `it` under the columns `keys`
Row(keys, it) == Join([j \in 1..Len(keys) |-> encode_value(DictGet(it, keys[j]))], <<",">>)

\* mutant of _encode_list_block: the last item decides the form
_encode_list_block_ByLast(name, items) ==
    IF items = <<>> THEN Text(name \o <<"{", "}">>)
    ELSE IF ~IsDict(items[Len(items)])
    THEN Text(name \o encode_value(VList(items)))
    ELSE Text(Header(name, items[Len(items)].keys))

\* name is <<>> for None (the code tests `if name`, so "" is the same);
\* it.get(k) on an item that is no dict raises AttributeError
_encode_list_block(name, items) ==
    IF items = <<>> THEN Text(name \o <<"{", "}">>)
    ELSE IF ~IsDict(items[1])
    THEN Text(name \o encode_value(VList(items)))
    ELSE LET keys == items[1].keys
         IN  IF keys # <<>> /\ \E i \in 1..Len(items) : ~IsDict(items[i])
             THEN Raise("AttributeError")
             ELSE Text(Header(name, keys) \o <<LineBreak>>
                       \o Join([i \in 1..Len(items) |-> Row(keys, items[i])], <<LineBreak>>))

\* the scan of lines 106-113
has_complex_values(data) ==
    \E i \in 1..Len(data.vals) :
        \/ IsDict(data.vals[i])
        \/ /\ IsList(data.vals[i])
           /\ Len(data.vals[i].items) > 0
           /\ IsDict(data.vals[i].items[1])

\* one block of a complex dict (lines 124-136)
Block(name, value) ==
    IF IsList(value) THEN _encode_list_block(name, value.items)
    ELSE IF IsDict(value)
    THEN Text(Header(name, value.keys) \o <<LineBreak>>
              \o Join([j \in 1..Len(value.keys) |-> encode_value(value.vals[j])], <<",">>))
    ELSE Text(name \o <<":", " ">> \o encode_value(value))

encode(data) ==
    IF IsList(data) THEN _encode_list_block(<<>>, data.items)
    ELSE IF IsDict(data)
    THEN IF ~has_complex_values(data)
         THEN Text(Header(<<>>, data.keys) \o <<LineBreak>>
                   \o Join([j \in 1..Len(data.keys) |-> encode_value(data.vals[j])], <<",">>))
         ELSE LET blocks == [i \in 1..Len(data.keys) |-> Block(data.keys[i], data.vals[i])]
              IN  IF \E i \in 1..Len(blocks) : blocks[i].t = "raise"
                  THEN blocks[CHOOSE i \in 1..Len(blocks) :
                                 /\ blocks[i].t = "raise"
                                 /\ \A j \in 1..(i - 1) : blocks[j].t # "raise"]
                  ELSE Text(Join([i \in 1..Len(blocks) |-> blocks[i].s],
                                 <<LineBreak, LineBreak>>))
    ELSE Raise("TypeError")

(***************************************************************************)
(* ToonDecoder._split_top_level_commas                                     *)
(***************************************************************************)
\* the locals of one call of the generator: i is the 1-based position of the
\* next character, start the 0-based index where the current piece begins,
\* out the pieces yielded so far
TokInit == [stack |-> <<>>, in_quotes |-> FALSE, esc |-> FALSE, start |-> 0,
            i |-> 1, out |-> <<>>]

\* mutant of TokStep: brackets are counted inside quotes as well
TokStep_QuotesIgnored(st, text) ==
    LET ch == text[st.i]
        nx == [st EXCEPT !.i = st.i + 1]
    IN  IF st.esc THEN [nx EXCEPT !.esc = FALSE]
        ELSE IF ch = "\\" THEN [nx EXCEPT !.esc = TRUE]
        ELSE IF ch = "\"" THEN [nx EXCEPT !.in_quotes = ~st.in_quotes]
        ELSE IF ch \in {"[", "{"} THEN [nx EXCEPT !.stack = Append(st.stack, ch)]
        ELSE IF ch \in {"]", "}"}
        THEN IF st.stack # <<>>
             THEN [nx EXCEPT !.stack = SubSeq(st.stack, 1, Len(st.stack) - 1)]
             ELSE nx
        ELSE IF st.in_quotes THEN nx
        ELSE IF ch = "," /\ st.stack = <<>>
        THEN [nx EXCEPT !.out = Append(st.out, Strip(SubSeq(text, st.start + 1, st.i - 1))),
                        !.start = st.i]
        ELSE nx

\* one turn of the for loop (lines 156-174) on the character text[st.i]
TokStep(st, text) ==
    LET ch == text[st.i]
        nx == [st EXCEPT !.i = st.i + 1]
    IN  IF st.esc THEN [nx EXCEPT !.esc = FALSE]
        ELSE IF ch = "\\" THEN [nx EXCEPT !.esc = TRUE]
        ELSE IF ch = "\"" THEN [nx EXCEPT !.in_quotes = ~st.in_quotes]
        ELSE IF st.in_quotes THEN nx
        ELSE IF ch \in {"[", "{"} THEN [nx EXCEPT !.stack = Append(st.stack, ch)]
        ELSE IF ch \in {"]", "}"}
        THEN IF st.stack # <<>>
             THEN [nx EXCEPT !.stack = SubSeq(st.stack, 1, Len(st.stack) - 1)]
             ELSE nx
        ELSE IF ch = "," /\ st.stack = <<>>
        THEN [nx EXCEPT !.out = Append(st.out, Strip(SubSeq(text, st.start + 1, st.i - 1))),
                        !.start = st.i]
        ELSE nx

\* after the loop (lines 176-177): the last piece, when it is not empty text
TokFinish(st, text) ==
    IF st.start < Len(text)
    THEN Append(st.out, Strip(SubSeq(text, st.start + 1, Len(text))))
    ELSE st.out

RECURSIVE TokRun(_, _, _)
\* the state of the scan after n more turns of the loop; the turns are taken
\* half by half, which keeps the evaluation shallow on long texts
TokRun(st, text, n) ==
    IF n = 0 THEN st
    ELSE IF n = 1 THEN TokStep(st, text)
    ELSE LET half == TokRun(st, text, n \div 2)
         IN  IF half.i > Len(text) THEN half ELSE TokRun(half, text, n - (n \div 2))

\* list(_split_top_level_commas(text))
_split_top_level_commas(text) == TokFinish(TokRun(TokInit, text, Len(text)), text)

(***************************************************************************)
(* ToonDecoder.parse_value                                                 *)
(***************************************************************************)
\* sys.int_info.default_max_str_digits of CPython 3.11: int(str) raises
\* ValueError on more digits
IntMaxStrDigits == 4300

\* re.fullmatch(r"-?\d+", tok)
IsIntToken(tok) ==
    LET d == IF StartsWith(tok, "-") THEN Tail(tok) ELSE tok
    IN  d # <<>> /\ \A i \in 1..Len(d) : d[i] \in Digits

\* re.fullmatch(r"-?\d+\.\d+", tok)
IsFloatToken(tok) ==
    LET d == IF StartsWith(tok, "-") THEN Tail(tok) ELSE tok
        dots == {i \in 1..Len(d) : d[i] = "."}
    IN  /\ Cardinality(dots) = 1
        /\ \A i \in 1..Len(d) : d[i] \in Digits \cup {"."}
        /\ d[1] # "." /\ d[Len(d)] # "."

\* digits without their leading zeros, "0" when nothing is left
DropLeadingZeros(d) ==
    IF \A i \in 1..Len(d) : d[i] = "0" THEN <<"0">>
    ELSE SubSeq(d, CHOOSE i \in 1..Len(d) : d[i] # "0" /\ \A j \in 1..(i - 1) : d[j] = "0",
                Len(d))

\* digits without their trailing zeros, "0" when nothing is left
DropTrailingZeros(d) ==
    IF \A i \in 1..Len(d) : d[i] = "0" THEN <<"0">>
    ELSE SubSeq(d, 1,
                CHOOSE i \in 1..Len(d) : d[i] # "0" /\ \A j \in (i + 1)..Len(d) : d[j] = "0")

\* int(tok) for a token that matched -?\d+
IntOfToken(tok) ==
    LET neg == StartsWith(tok, "-")
        d   == IF neg THEN Tail(tok) ELSE tok
        c   == DropLeadingZeros(d)
    IN  IF Len(d) > IntMaxStrDigits THEN Raise("ValueError")
        ELSE VInt(IF neg /\ c # <<"0">> THEN <<"-">> \o c ELSE c)

\* two-digit exponent of the repr of a small float
ExpDigits(n) ==
    LET ds == <<"0", "1", "2", "3", "4", "5", "6", "7", "8", "9">>
    IN  <<ds[(n \div 10) + 1], ds[(n % 10) + 1]>>

\* float(tok) for a token that matched -?\d+\.\d+, as the text str() gives
\* the float: exact for the tokens of up to 15 significant digits and below
\* 1e16 that this model holds
FloatOfToken(tok) ==
    LET neg  == StartsWith(tok, "-")
        d    == IF neg THEN Tail(tok) ELSE tok
        dot  == CHOOSE i \in 1..Len(d) : d[i] = "."
        ip   == DropLeadingZeros(SubSeq(d, 1, dot - 1))
        fp   == DropTrailingZeros(SubSeq(d, dot + 1, Len(d)))
        sign == IF neg THEN <<"-">> ELSE <<>>
        z    == IF fp = <<"0">> THEN 0
                ELSE (CHOOSE i \in 1..Len(fp) : fp[i] # "0" /\ \A j \in 1..(i - 1) : fp[j] = "0") - 1
        sig  == SubSeq(fp, z + 1, Len(fp))
    IN  IF ip = <<"0">> /\ fp # <<"0">> /\ z >= 4
        THEN VFloat(sign \o <<sig[1]>>
                    \o (IF Len(sig) > 1 THEN <<".">> \o Tail(sig) ELSE <<>>)
                    \o <<"e", "-">> \o ExpDigits(z + 1))
        ELSE VFloat(sign \o ip \o <<".">> \o fp)

\* p.split(":", 1) for a p that holds a colon
ColonAt(p) == CHOOSE i \in 1..Len(p) : p[i] = ":" /\ \A j \in 1..(i - 1) : p[j] # ":"

\* the first raise among the values, none when no value raised
FirstRaise(vals) ==
    IF \E i \in 1..Len(vals) : vals[i].t = "raise"
    THEN vals[CHOOSE i \in 1..Len(vals) :
                 vals[i].t = "raise" /\ \A j \in 1..(i - 1) : vals[j].t # "raise"]
    ELSE VNull

HasRaise(vals) == \E i \in 1..Len(vals) : vals[i].t = "raise"

RECURSIVE parse_value(_)
parse_value(token) ==
    LET tok == Strip(token)
        low == Lower(tok)
    IN  IF tok = <<>> THEN VNull
        ELSE IF low \in {<<"n", "u", "l", "l">>, <<"n", "o", "n", "e">>} THEN VNull
        ELSE IF low = <<"t", "r", "u", "e">> THEN VBool(TRUE)
        ELSE IF low = <<"f", "a", "l", "s", "e">> THEN VBool(FALSE)
        ELSE IF StartsWith(tok, "\"") /\ EndsWith(tok, "\"")
        THEN VStr(UnescapeQuotes(SubSeq(tok, 2, Len(tok) - 1)))
        ELSE IF StartsWith(tok, "[") /\ EndsWith(tok, "]")
        THEN LET inner == Strip(SubSeq(tok, 2, Len(tok) - 1))
             IN  IF inner = <<>> THEN VList(<<>>)
                 ELSE LET ps == _split_top_level_commas(inner)
                          vs == [i \in 1..Len(ps) |-> parse_value(ps[i])]
                      IN  IF HasRaise(vs) THEN FirstRaise(vs) ELSE VList(vs)
        ELSE IF StartsWith(tok, "{") /\ EndsWith(tok, "}")
        THEN LET inner == Strip(SubSeq(tok, 2, Len(tok) - 1))
             IN  IF inner = <<>> THEN VObj(<<>>, <<>>)
                 ELSE LET ps == SelectSeq(_split_top_level_commas(inner),
                                          LAMBDA p : \E i \in 1..Len(p) : p[i] = ":")
                          ks == [i \in 1..Len(ps) |->
                                    StripChars(Strip(SubSeq(ps[i], 1, ColonAt(ps[i]) - 1)),
                                               {"\""})]
                          vs == [i \in 1..Len(ps) |->
                                    parse_value(SubSeq(ps[i], ColonAt(ps[i]) + 1, Len(ps[i])))]
                      IN  IF HasRaise(vs) THEN FirstRaise(vs)
                          ELSE DictZip(VObj(<<>>, <<>>), ks, vs)
        ELSE IF IsIntToken(tok) THEN IntOfToken(tok)
        ELSE IF IsFloatToken(tok) THEN FloatOfToken(tok)
        ELSE VStr(tok)

(***************************************************************************)
(* ToonDecoder.decode                                                      *)
(***************************************************************************)
\* [A-Za-z0-9_]
IdentChars == LowerLetters \cup UpperLetters \cup Digits \cup {"_"}

\* ^ under re.MULTILINE: the start of the text or just after a line break
AtLineStart(text, p) == p = 1 \/ text[p - 1] = LineBreak

\* the length of the longest run of characters of `cls` that starts at p
RunLen(text, p, cls) ==
    IF \A i \in p..Len(text) : text[i] \in cls THEN Len(text) - p + 1
    ELSE (CHOOSE i \in p..Len(text) :
              text[i] \notin cls /\ \A j \in p..(i - 1) : text[j] \in cls) - p

\* the number of characters from p on that come before the first c
RunLenUntil(text, p, c) ==
    IF \A i \in p..Len(text) : text[i] # c THEN Len(text) - p + 1
    ELSE (CHOOSE i \in p..Len(text) :
              text[i] = c /\ \A j \in p..(i - 1) : text[j] # c) - p

\* the match of NAME\{([^}]+)\}$ at p, NAME a run of `cls` (optional when
\* `optional`): [ok, start, stop, name, cols], stop the position of the "}".
\* [^}]+ takes every character up to the first "}", line breaks too.
MatchHeaderAt(text, p, cls, optional) ==
    LET k    == RunLen(text, p, cls)
        open == p + k
        n    == RunLenUntil(text, open + 1, "}")
        shut == open + n + 1
        ok   == /\ (optional \/ k >= 1)
                /\ open <= Len(text) /\ text[open] = "{"
                /\ n >= 1
                /\ shut <= Len(text) /\ text[shut] = "}"
                /\ (shut = Len(text) \/ text[shut + 1] = LineBreak)
    IN  [ok |-> ok, start |-> p, stop |-> shut,
         name |-> SubSeq(text, p, p + k - 1),
         cols |-> SubSeq(text, open + 1, shut - 1)]

RECURSIVE FindHeaders(_, _)
\* list(header_re.finditer(text)) from position pos on (lines 244-245):
\* leftmost match first, the search resuming after each match
FindHeaders(text, pos) ==
    LET at == {p \in pos..Len(text) :
                  AtLineStart(text, p) /\ MatchHeaderAt(text, p, IdentChars, TRUE).ok}
    IN  IF at = {} THEN <<>>
        ELSE LET m == MatchHeaderAt(text, SetMin(at), IdentChars, TRUE)
             IN  <<m>> \o FindHeaders(text, m.stop + 1)

RECURSIVE SplitOn(_, _)
\* s.split(c)
SplitOn(s, c) ==
    IF \A i \in 1..Len(s) : s[i] # c THEN <<s>>
    ELSE LET i == CHOOSE i \in 1..Len(s) : s[i] = c /\ \A j \in 1..(i - 1) : s[j] # c
         IN  <<SubSeq(s, 1, i - 1)>> \o SplitOn(SubSeq(s, i + 1, Len(s)), c)

\* [k.strip() for k in m.group(2).split(",")]
HeaderKeys(cols) == LET ks == SplitOn(cols, ",") IN [i \in 1..Len(ks) |-> Strip(ks[i])]

\* [l.strip() for l in body.splitlines() if l.strip()]
DataLines(body) ==
    LET ls == SplitOn(body, LineBreak)
        st == [i \in 1..Len(ls) |-> Strip(ls[i])]
    IN  SelectSeq(st, LAMBDA l : l # <<>>)

\* RowDict with the columns that have no field set to None
RowDict_Padded(keys, ln) ==
    LET ps == _split_top_level_commas(ln)
        vs == [i \in 1..Len(keys) |-> IF i <= Len(ps) THEN parse_value(ps[i]) ELSE VNull]
    IN  IF HasRaise(vs) THEN FirstRaise(vs) ELSE DictZip(VObj(<<>>, <<>>), keys, vs)

\* dict(zip(keys, map(parse_value, _split_top_level_commas(ln))))
RowDict(keys, ln) ==
    LET ps == _split_top_level_commas(ln)
        n  == IF Len(ps) < Len(keys) THEN Len(ps) ELSE Len(keys)
        vs == [i \in 1..n |-> parse_value(ps[i])]
    IN  IF HasRaise(vs) THEN FirstRaise(vs) ELSE DictZip(VObj(<<>>, <<>>), keys, vs)

\* BlockValue without the one-line case: a list of dicts whatever the number
\* of data lines
BlockValue_AlwaysList(keys, lines) ==
    LET rows == [i \in 1..Len(lines) |-> RowDict(keys, lines[i])]
    IN  IF HasRaise(rows) THEN FirstRaise(rows) ELSE VList(rows)

\* the value of one block: a dict for one data line, else a list of dicts
\* (lines 257-263 and 275-284)
BlockValue(keys, lines) ==
    IF Len(lines) = 1 THEN RowDict(keys, lines[1])
    ELSE LET rows == [i \in 1..Len(lines) |-> RowDict(keys, lines[i])]
         IN  IF HasRaise(rows) THEN FirstRaise(rows) ELSE VList(rows)

\* the dict key None, which result[name] gets for a header without a name
NoneKey == <<"None">>

\* decode without the single-block branch of lines 250-263: every header,
\* a lone unnamed one too, gives a key of the result
decode_AlwaysKeyed(input) ==
    LET text    == Strip(input)
        matches == FindHeaders(text, 1)
    IN  IF StartsWith(text, "[") /\ EndsWith(text, "]") THEN parse_value(text)
        ELSE IF matches = <<>> THEN parse_value(text)
        ELSE LET body(i) == SubSeq(text, matches[i].stop + 1,
                                   IF i + 1 <= Len(matches) THEN matches[i + 1].start - 1
                                   ELSE Len(text))
                 vals == [i \in 1..Len(matches) |->
                             BlockValue(HeaderKeys(matches[i].cols), DataLines(body(i)))]
                 names == [i \in 1..Len(matches) |->
                              IF matches[i].name = <<>> THEN NoneKey ELSE matches[i].name]
             IN  IF HasRaise(vals) THEN FirstRaise(vals)
                 ELSE DictZip(VObj(<<>>, <<>>), names, vals)

decode(input) ==
    LET text    == Strip(input)
        matches == FindHeaders(text, 1)
    IN  IF StartsWith(text, "[") /\ EndsWith(text, "]") THEN parse_value(text)
        ELSE IF matches = <<>> THEN parse_value(text)
        ELSE IF Len(matches) = 1 /\ matches[1].name = <<>>
        THEN BlockValue(HeaderKeys(matches[1].cols),
                        DataLines(SubSeq(text, matches[1].stop + 1, Len(text))))
        ELSE LET body(i) == SubSeq(text, matches[i].stop + 1,
                                   IF i + 1 <= Len(matches) THEN matches[i + 1].start - 1
                                   ELSE Len(text))
                 vals == [i \in 1..Len(matches) |->
                             BlockValue(HeaderKeys(matches[i].cols), DataLines(body(i)))]
                 names == [i \in 1..Len(matches) |->
                              IF matches[i].name = <<>> THEN NoneKey ELSE matches[i].name]
             IN  IF HasRaise(vals) THEN FirstRaise(vals)
                 ELSE DictZip(VObj(<<>>, <<>>), names, vals)

(***************************************************************************)
(* validate_toon                                                           *)
(***************************************************************************)
\* line[:50]
PreviewLen == 50

\* [a-z_], the section names of header_pattern
SectionChars == LowerLetters \cup {"_"}

\* str.splitlines() of a text: no empty last line after a final line break
SplitLines(text) ==
    IF text = <<>> THEN <<>>
    ELSE IF text[Len(text)] = LineBreak THEN SplitOn(SubSeq(text, 1, Len(text) - 1), LineBreak)
    ELSE SplitOn(text, LineBreak)

\* the locals of the loop of lines 367-389: i the 0-based index of the next line
ValInit == [current_section |-> <<>>, expected_cols |-> 0, i |-> 0,
            result |-> [t |-> "running"]]

\* LineHeader with the name group of decode: letters of both cases and
\* digits, or no name at all
LineHeader_AnyName(line) == MatchHeaderAt(line, 1, IdentChars, TRUE)

\* header_pattern.match(line) on one stripped line
LineHeader(line) == MatchHeaderAt(line, 1, SectionChars, FALSE)

\* mutant of ValStep: a blank line leaves the section active
ValStep_KeepSection(st, lines) ==
    LET line == Strip(lines[st.i + 1])
        hm   == LineHeader(line)
        nx   == [st EXCEPT !.i = st.i + 1]
    IN  IF line = <<>> THEN nx
        ELSE IF hm.ok
        THEN [nx EXCEPT !.current_section = hm.name,
                        !.expected_cols = Len(SplitOn(hm.cols, ","))]
        ELSE IF st.current_section # <<>>
             /\ Len(_split_top_level_commas(line)) # st.expected_cols
        THEN [nx EXCEPT !.result =
                 [t |-> "raise", exc |-> "ValueError",
                  section |-> st.current_section, row |-> st.i + 1,
                  actual |-> Len(_split_top_level_commas(line)),
                  expected |-> st.expected_cols,
                  content |-> SubSeq(line, 1, IF Len(line) < PreviewLen
                                              THEN Len(line) ELSE PreviewLen)]]
        ELSE nx

\* one turn of the loop on lines[st.i]
ValStep(st, lines) ==
    LET line == Strip(lines[st.i + 1])
        hm   == LineHeader(line)
        nx   == [st EXCEPT !.i = st.i + 1]
    IN  IF line = <<>> THEN [nx EXCEPT !.current_section = <<>>]
        ELSE IF hm.ok
        THEN [nx EXCEPT !.current_section = hm.name,
                        !.expected_cols = Len(SplitOn(hm.cols, ","))]
        ELSE IF st.current_section # <<>>
        THEN LET cols == _split_top_level_commas(line)
             IN  IF Len(cols) # st.expected_cols
                 THEN [nx EXCEPT !.result =
                          [t |-> "raise", exc |-> "ValueError",
                           section |-> st.current_section, row |-> st.i + 1,
                           actual |-> Len(cols), expected |-> st.expected_cols,
                           content |-> SubSeq(line, 1, IF Len(line) < PreviewLen
                                                       THEN Len(line) ELSE PreviewLen)]]
                 ELSE nx
        ELSE nx

RECURSIVE ValRun(_, _)
ValRun(st, lines) ==
    IF st.result.t = "raise" THEN st.result
    ELSE IF st.i >= Len(lines) THEN [t |-> "true"]
    ELSE ValRun(ValStep(st, lines), lines)

validate_toon(input) ==
    LET text == Strip(input)
    IN  IF text = <<>> THEN [t |-> "true"]
        ELSE ValRun(ValInit, SplitLines(text))

(***************************************************************************)
(* Inputs                                                                  *)
(***************************************************************************)
\* longest string drawn in full from StrAlphabet
MaxStrLen == 2

\* longest list drawn in full from Items
MaxItems == 2

\* all texts over `alpha` of length 0..n
AllTexts(alpha, n) == UNION {[1..k -> alpha] : k \in 0..n}

StrAlphabet == {"a", "1", "-", ",", "\"", "\\", " ", "\n", "{", ":"}

NamedStrings == {<<"t", "r", "u", "e">>, <<"T", "r", "u", "e">>, <<"N", "O", "N", "E">>,
                 <<"n", "u", "l", "l">>, <<"f", "a", "l", "s", "e">>,
                 <<"h", "e", "l", "l", "o">>, <<"4", "2">>, <<"x">>, <<"y">>,
                 <<"-", "1", "\"">>, <<"a", " ", "b">>, <<"1", "\\", "\"">>}

StrInputs == AllTexts(StrAlphabet, MaxStrLen) \cup NamedStrings

Scalars ==
    {VNull, VBool(TRUE), VBool(FALSE)}
    \cup {VInt(d) : d \in {<<"0">>, <<"7">>, <<"-", "3">>, <<"4", "2">>}}
    \cup {VFloat(r) : r \in {<<"1", ".", "5">>, <<"-", "0", ".", "5">>, <<"2", ".", "0">>,
                             <<"1", "e", "-", "0", "5">>}}
    \cup {VStr(s) : s \in StrInputs}

SmallScalars == {VNull, VBool(TRUE), VInt(<<"1">>), VInt(<<"2">>), VFloat(<<"1", ".", "5">>),
                 VStr(<<"x">>), VStr(<<>>), VStr(<<"4", "2">>), VStr(<<"a", ",", "b">>),
                 VStr(<<"1", "\"">>)}

TinyScalars == {VInt(<<"1">>), VNull, VStr(<<"x">>)}

KeyA == <<"a">>

KeyB == <<"b">>

\* Objects whose values are all scalars
FlatObjs ==
    {VObj(<<>>, <<>>)}
    \cup {VObj(<<k>>, <<v>>) : k \in {KeyA, KeyB}, v \in Scalars}
    \cup {VObj(<<KeyA, KeyB>>, <<v, w>>) : v \in SmallScalars, w \in SmallScalars}
    \cup {VObj(<<KeyB, KeyA>>, <<v, w>>) : v \in TinyScalars, w \in TinyScalars}

ItemObjs ==
    {VObj(<<>>, <<>>)}
    \cup {VObj(<<k>>, <<v>>) : k \in {KeyA, KeyB}, v \in TinyScalars}
    \cup {VObj(<<KeyA, KeyB>>, <<v, w>>) : v \in TinyScalars, w \in TinyScalars}

Items == ItemObjs \cup {VInt(<<"5">>), VStr(<<"x">>)}

Lists == {VList(l) : l \in AllTexts(Items, MaxItems)}

KeyTags == <<"t", "a", "g", "s">>

KeyMeta == <<"m", "e", "t", "a">>

TagsList == VList(<<VStr(<<"x">>), VStr(<<"y">>)>>)

MetaObj == VObj(<<<<"k">>>>, <<VInt(<<"1">>)>>)

\* the values of the top-level keys of the nested Objects
NestVals ==
    {TagsList, MetaObj, VList(<<>>), VObj(<<>>, <<>>),
     VList(<<VObj(<<KeyA>>, <<VInt(<<"1">>)>>)>>),
     VList(<<VObj(<<KeyA, KeyB>>, <<VInt(<<"1">>), VInt(<<"2">>)>>),
             VObj(<<KeyA>>, <<VInt(<<"3">>)>>)>>),
     VList(<<VObj(<<KeyA>>, <<VInt(<<"1">>)>>),
             VObj(<<KeyA, KeyB>>, <<VInt(<<"2">>), VInt(<<"3">>)>>)>>),
     VList(<<VObj(<<KeyA>>, <<VInt(<<"1">>)>>), VInt(<<"5">>)>>),
     VObj(<<KeyA, KeyB>>, <<VStr(<<"x">>), VNull>>),
     VInt(<<"1">>), VStr(<<"x">>), VNull}

NestedObjs ==
    {VObj(<<k>>, <<v>>) : k \in {KeyTags, KeyMeta}, v \in NestVals}
    \cup {VObj(<<KeyTags, KeyMeta>>, <<v, w>>) : v \in NestVals, w \in NestVals}

\* the names a list block is rendered under: None and a key
BlockNames == {<<>>, KeyTags}

\* a table with an empty-string cell, alone and as the first of two blocks
BlankRowList == VList(<<VObj(<<KeyA>>, <<VStr(<<>>)>>), VObj(<<KeyA>>, <<VStr(<<"x">>)>>)>>)

BlankRowObj == VObj(<<KeyTags, KeyMeta>>, <<VList(<<VObj(<<KeyA>>, <<VStr(<<>>)>>)>>), MetaObj>>)

\* a named table whose one row ends with an empty-string cell
EmptyLastCell ==
    VObj(<<KeyTags>>, <<VList(<<VObj(<<KeyA, KeyB>>, <<VStr(<<"x">>), VStr(<<>>)>>)>>)>>)

\* a named table whose one cell is the string 1",a: written as "1",a" it
\* is a row of two fields under one column
OverlongRow ==
    VObj(<<KeyTags>>, <<VList(<<VObj(<<KeyA>>, <<VStr(<<"1", "\"", ",", "a">>)>>)>>)>>)

ValueInputs ==
    Scalars \cup FlatObjs \cup Lists \cup NestedObjs
    \cup {BlankRowList, BlankRowObj, EmptyLastCell, OverlongRow}

\* longest text drawn in full from TextAlphabet
MaxTextLen == 3

\* most lines of a text built from Lines
MaxLines == 3

TextAlphabet == {"a", "1", ",", "\"", "\\", "[", "]", "{", "}", "\n", " ", ":"}

\* header lines, data rows and blank lines
Lines == {<<"u", "{", "a", ",", "b", "}">>,
          <<"v", "_", "{", "a", "}">>,
          <<"{", "a", ",", "b", "}">>,
          <<"U", "1", "{", "a", "}">>,
          <<"x">>,
          <<"x", ",", "y">>,
          <<" ", "x", ",", "7", " ">>,
          <<"\"", "x", ",", "y", "\"">>,
          <<"[", "x", ",", "y">>,
          <<"x", ",">>,
          <<>>}

\* lines joined by line breaks
LineTexts == {Join(ls, <<LineBreak>>) : ls \in UNION {[1..k -> Lines] : k \in 1..MaxLines}}

UsersText == <<"u", "s", "e", "r", "s", "{", "n", "a", "m", "e", ",", "a", "g", "e", "}", "\n",
               "A", "n", "a", ",", "3", "0", "\n", "B", "r", "u", "n", "o">>

\* single tokens: literals in several letter cases, numbers, quoted text
ParseTokens ==
    {<<"T", "R", "U", "E">>, <<"F", "a", "l", "s", "e">>, <<"N", "o", "n", "e">>,
     <<"n", "U", "l", "l">>, <<" ", "n", "u", "l", "l", " ">>, <<"n", "u", "l">>,
     <<"4", "2">>, <<"-", "1", "2">>, <<"0", "0", "7">>, <<"-", "0">>, <<"-">>, <<"1", "-">>,
     <<"1", ".", "5">>, <<"-", "0", ".", "5", "0">>, <<"1", ".">>, <<".", "5">>,
     <<"1", ".", "5", ".", "2">>, <<"1", "e", "5">>,
     <<"\"", "4", "2", "\"">>, <<"\"", "a", "\\", "\"", "b", "\"">>,
     <<"\"", "a", "\\", "n", "\"">>, <<"\"", "n", "u", "l", "l", "\"">>,
     <<"\"", "a">>, <<"h", "e", "l", "l", "o">>, <<"a", " ", "b">>}

\* the header {a,b} over the cells "42" and null
ScalarExample == <<"{", "a", ",", "b", "}", "\n", "\"", "4", "2", "\"", ",", "n", "u", "l", "l">>

\* tokens wrapped in brackets or braces: [a, 1]  [a,]  [ ]  [[1], {a: 1}]
\* {a: 1, b: x}  {"a": [1, 1]}  {a: 1, a: x}  {a: 1, b}  { }  {a:1:1}
CollectionTokens ==
    {<<"[", "a", ",", " ", "1", "]">>, <<"[", "a", ",", "]">>, <<"[", " ", "]">>,
     <<"[", "[", "1", "]", ",", " ", "{", "a", ":", " ", "1", "}", "]">>,
     <<"{", "a", ":", " ", "1", ",", " ", "b", ":", " ", "x", "}">>,
     <<"{", "\"", "a", "\"", ":", " ", "[", "1", ",", " ", "1", "]", "}">>,
     <<"{", "a", ":", " ", "1", ",", " ", "a", ":", " ", "x", "}">>,
     <<"{", "a", ":", " ", "1", ",", " ", "b", "}">>, <<"{", " ", "}">>,
     <<"{", "a", ":", "1", ":", "1", "}">>}

TextInputs ==
    AllTexts(TextAlphabet, MaxTextLen) \cup LineTexts
    \cup {UsersText, <<"\n", "\n">> \o UsersText}
    \cup ParseTokens \cup CollectionTokens \cup {ScalarExample}

\* an integer token one digit longer than int() converts, held in the state
\* as the character and the number of times it is repeated
LongDigits == [t |-> "repeat", c |-> "1", n |-> IntMaxStrDigits + 1]

\* the text an input stands for
TextOf(in) == IF in.t = "repeat" THEN [i \in 1..in.n |-> in.c] ELSE in.s

IsTextInput(in) == in.t \in {"text", "repeat"}

(***************************************************************************)
(* extract_resource (backend/core/utils.py)                                *)
(***************************************************************************)
\* sub occurs in s at position p
OccursAt(s, sub, p) ==
    /\ p >= 1 /\ p + Len(sub) - 1 <= Len(s)
    /\ \A j \in 1..Len(sub) : s[p + j - 1] = sub[j]

\* sub in s
Contains(s, sub) == \E p \in 1..Len(s) : OccursAt(s, sub, p)

RECURSIVE SplitStr(_, _)
\* s.split(sub): the occurrences are taken left to right and do not overlap
SplitStr(s, sub) ==
    IF ~Contains(s, sub) THEN <<s>>
    ELSE LET p == SetMin({q \in 1..Len(s) : OccursAt(s, sub, q)})
         IN  <<SubSeq(s, 1, p - 1)>> \o SplitStr(SubSeq(s, p + Len(sub), Len(s)), sub)

\* seq[-1]
Last(seq) == seq[Len(seq)]

\* s.rstrip(chars)
RStripChars(s, chars) ==
    IF \A i \in 1..Len(s) : s[i] \in chars THEN <<>>
    ELSE SubSeq(s, 1, SetMax({i \in 1..Len(s) : s[i] \notin chars}))

SlashDatasets == <<"/", "d", "a", "t", "a", "s", "e", "t", "s", "/">>

SlashCompetitions == <<"/", "c", "o", "m", "p", "e", "t", "i", "t", "i", "o", "n", "s", "/">>

SlashC == <<"/", "c", "/">>

\* {"type": type, "id": id}
Resource(type, id) ==
    VObj(<<<<"t", "y", "p", "e">>, <<"i", "d">>>>, <<VStr(type), VStr(id)>>)

TypeDataset == <<"d", "a", "t", "a", "s", "e", "t">>

TypeCompetition == <<"c", "o", "m", "p", "e", "t", "i", "t", "i", "o", "n">>

\* `not url`: None, 0, "", [] and {} are falsy
Falsy(v) ==
    \/ v.t = "null"
    \/ v.t = "bool" /\ ~v.b
    \/ v.t = "int" /\ v.dec = <<"0">>
    \/ v.t = "str" /\ v.s = <<>>
    \/ v.t = "list" /\ v.items = <<>>
    \/ v.t = "obj" /\ v.keys = <<>>

\* url.strip().split("?")[0].split("#")[0].rstrip("/")
CleanUrl(s) == RStripChars(SplitStr(SplitStr(Strip(s), <<"?">>)[1], <<"#">>)[1], {"/"})

extract_resource(arg) ==
    IF Falsy(arg) \/ arg.t # "str" THEN Raise("URLParseError")
    ELSE LET url == CleanUrl(arg.s)
             parts == SplitStr(Last(SplitStr(url, SlashDatasets)), <<"/">>)
         IN  IF Contains(url, SlashDatasets) /\ Len(parts) >= 2
             THEN Resource(TypeDataset, parts[1] \o <<"/">> \o parts[2])
             ELSE IF Contains(url, SlashCompetitions)
             THEN Resource(TypeCompetition,
                           SplitStr(Last(SplitStr(url, SlashCompetitions)), <<"/">>)[1])
             ELSE IF Contains(url, SlashC)
             THEN Resource(TypeCompetition,
                           SplitStr(Last(SplitStr(url, SlashC)), <<"/">>)[1])
             ELSE Raise("URLParseError")

(***************************************************************************)
(* State                                                                   *)
(***************************************************************************)
\* input: the argument of the first call; pc: which call has returned;
\* out: what the first call returned; back: what the call on `out` returned.
\* calls, frames: the calls in progress of each thread and the locals of
\* each call (used by the interleaved specification only).
\* files: the cache files by path; now: the clock, in seconds; last_set: for
\* each key, the data and the time of the last set_cached_data call on it
VARIABLES input, pc, out, back, calls, frames, files, now, last_set

vars == <<input, pc, out, back, calls, frames, files, now, last_set>>

\* the cache directory, the clock, and the last set_cached_data of each key
cache == <<files, now, last_set>>

NoRes == [t |-> "none"]

\* one thread at a time: no calls in progress
NoThreads == calls = <<>> /\ frames = <<>>

\* an empty cache directory at time 0
NoCache == files = <<>> /\ now = 0 /\ last_set = <<>>

\* no single call in progress
NoSingle == input = NoRes /\ pc = "threads" /\ out = NoRes /\ back = NoRes

\* encode(input)
CallEncode ==
    /\ pc = "start"
    /\ ~IsTextInput(input)
    /\ out' = encode(input)
    /\ pc' = "encoded"
    /\ UNCHANGED <<input, back, calls, frames, cache>>

\* decode(encode(input)), when encode returned
CallDecodeBack ==
    /\ pc = "encoded"
    /\ out.t = "text"
    /\ back' = decode(out.s)
    /\ pc' = "decoded"
    /\ UNCHANGED <<input, out, calls, frames, cache>>

\* encode_value(input)
CallEncodeValue ==
    /\ pc = "start"
    /\ ~IsTextInput(input)
    /\ out' = Text(encode_value(input))
    /\ pc' = "cell"
    /\ UNCHANGED <<input, back, calls, frames, cache>>

\* parse_value(encode_value(input))
CallParseBack ==
    /\ pc = "cell"
    /\ back' = parse_value(out.s)
    /\ pc' = "reparsed"
    /\ UNCHANGED <<input, out, calls, frames, cache>>

\* _encode_list_block(name, input) on a list, named or not
CallListBlock ==
    /\ pc = "start"
    /\ ~IsTextInput(input)
    /\ IsList(input)
    /\ \E name \in BlockNames :
           out' = [t |-> "block", name |-> name, res |-> _encode_list_block(name, input.items)]
    /\ pc' = "block"
    /\ UNCHANGED <<input, back, calls, frames, cache>>

\* validate_toon(encode(input)), when encode returned
CallValidateBack ==
    /\ pc = "encoded"
    /\ out.t = "text"
    /\ back' = validate_toon(out.s)
    /\ pc' = "checked"
    /\ UNCHANGED <<input, out, calls, frames, cache>>

Init ==
    /\ input \in ValueInputs
    /\ pc = "start"
    /\ out = NoRes
    /\ back = NoRes
    /\ NoThreads
    /\ NoCache

Next ==
    \/ CallEncode \/ CallDecodeBack \/ CallValidateBack
    \/ CallEncodeValue \/ CallParseBack \/ CallListBlock

\* the encoder on Values, and the decoder on what it wrote
Spec == Init /\ [][Next]_vars

\* decode(input) on a text
CallDecode ==
    /\ pc = "start"
    /\ IsTextInput(input)
    /\ out' = decode(TextOf(input))
    /\ pc' = "decoded"
    /\ UNCHANGED <<input, back, calls, frames, cache>>

\* validate_toon(input) on a text
CallValidate ==
    /\ pc = "start"
    /\ IsTextInput(input)
    /\ out' = validate_toon(TextOf(input))
    /\ pc' = "validated"
    /\ UNCHANGED <<input, back, calls, frames, cache>>

\* list(_split_top_level_commas(input)) on a text
CallSplit ==
    /\ pc = "start"
    /\ IsTextInput(input)
    /\ out' = [t |-> "pieces", ps |-> _split_top_level_commas(TextOf(input))]
    /\ pc' = "split"
    /\ UNCHANGED <<input, back, calls, frames, cache>>

\* parse_value(input) on a text taken as one token
CallParse ==
    /\ pc = "start"
    /\ IsTextInput(input)
    /\ out' = parse_value(TextOf(input))
    /\ pc' = "parsed"
    /\ UNCHANGED <<input, back, calls, frames, cache>>

InitText ==
    /\ input \in {Text(s) : s \in TextInputs} \cup {LongDigits}
    /\ pc = "start"
    /\ out = NoRes
    /\ back = NoRes
    /\ NoThreads
    /\ NoCache

NextText == CallDecode \/ CallValidate \/ CallSplit \/ CallParse

\* the decoder, the validator and the tokenizer on texts
SpecText == InitText /\ [][NextText]_vars

(***************************************************************************)
(* extract_resource on URLs                                                *)
(***************************************************************************)
\* the pieces a URL argument is put together from
MaxUrlParts == 4

UrlPieces == {SlashDatasets, SlashCompetitions, SlashC, <<"a">>, <<"a", "/", "b">>,
              <<"/">>, <<"?">>, <<"#">>, <<" ">>, <<"h", ":", "/", "/", "k">>}

RECURSIVE Concat(_)
Concat(ps) == IF ps = <<>> THEN <<>> ELSE ps[1] \o Concat(Tail(ps))

UrlTexts == {Concat(ps) : ps \in UNION {[1..k -> UrlPieces] : k \in 0..MaxUrlParts}}

\* str arguments, and arguments that are no str
UrlInputs ==
    {VStr(u) : u \in UrlTexts}
        \cup {VNull, VInt(<<"0">>), VInt(<<"5">>), VBool(TRUE), VList(<<>>),
              VList(<<VStr(SlashC \o <<"a">>)>>)}

\* extract_resource(input)
CallExtract ==
    /\ pc = "start"
    /\ out' = extract_resource(input)
    /\ pc' = "extracted"
    /\ UNCHANGED <<input, back, calls, frames, cache>>

InitUrl ==
    /\ input \in UrlInputs
    /\ pc = "start"
    /\ out = NoRes
    /\ back = NoRes
    /\ NoThreads
    /\ NoCache

NextUrl == CallExtract

\* extract_resource on its arguments
SpecUrl == InitUrl /\ [][NextUrl]_vars

(***************************************************************************)
(* get_cached_data / set_cached_data (backend/core/cache.py)               *)
(***************************************************************************)
CACHE_EXPIRY_HOURS == 24

SecondsPerHour == 3600

\* a tuple and a set: Python values that are no JSON values
VTuple(items) == [t |-> "tuple", items |-> items]

VSet(items) == [t |-> "set", items |-> items]

\* hashlib.md5(key.encode()).hexdigest(), for the keys of this model
Md5Hex(key) ==
    CASE key = "test_key"       -> "8c32d1183251df9828f929b935ae0419"
      [] key = "test_cache_key" -> "7ccd26b7fc93e18de29c6fc99f646f21"

\* the file name under CACHE_DIR
get_cache_path(key) == Md5Hex(key)

RECURSIVE Serializable(_)
\* json.dump raises TypeError on a value of no JSON type
Serializable(v) ==
    CASE v.t \in {"null", "bool", "int", "float", "str"} -> TRUE
      [] v.t \in {"list", "tuple"} -> \A i \in 1..Len(v.items) : Serializable(v.items[i])
      [] v.t = "obj" -> \A i \in 1..Len(v.vals) : Serializable(v.vals[i])
      [] OTHER -> FALSE

RECURSIVE JsonRoundTrip(_)
\* json.load of what json.dump wrote: a tuple comes back as a list
JsonRoundTrip(v) ==
    CASE v.t \in {"null", "bool", "int", "float", "str"} -> v
      [] v.t \in {"list", "tuple"} ->
            VList([i \in 1..Len(v.items) |-> JsonRoundTrip(v.items[i])])
      [] v.t = "obj" -> VObj(v.keys, [i \in 1..Len(v.vals) |-> JsonRoundTrip(v.vals[i])])

\* the file after open(cache_path, "w") and json.dump(cache_data, f): the
\* document, or a truncated text when json.dump raised part-way
WrittenFile(timestamp, data) ==
    IF Serializable(data)
    THEN [t |-> "json", timestamp |-> timestamp, data |-> JsonRoundTrip(data)]
    ELSE [t |-> "partial"]

\* the body of get_cached_data on an existing file, at clock value `time`
ReadCached(file, time) ==
    IF file.t # "json" THEN VNull
    ELSE IF time - file.timestamp < CACHE_EXPIRY_HOURS * SecondsPerHour
    THEN file.data
    ELSE VNull

\* the keys, the data and the clock steps of this model
CacheKeys == {"test_key", "test_cache_key"}

FooBar == VObj(<<<<"f", "o", "o">>>>, <<VStr(<<"b", "a", "r">>)>>)

CacheData ==
    {FooBar, VList(<<VInt(<<"1">>)>>), VStr(<<"x">>),
     VTuple(<<VInt(<<"1">>)>>), VSet(<<VInt(<<"1">>)>>)}

HalfExpiry == (CACHE_EXPIRY_HOURS * SecondsPerHour) \div 2

TickSteps == {HalfExpiry, HalfExpiry - 1}

MaxTicks == 3

MaxClock == MaxTicks * HalfExpiry

\* set_cached_data(key, data)
SetCached(key, data) ==
    /\ pc \in {"start", "set", "got", "ticked"}
    /\ files' = (get_cache_path(key) :> WrittenFile(now, data)) @@ files
    /\ last_set' = (key :> [data |-> data, at |-> now]) @@ last_set
    /\ input' = [t |-> "set", key |-> key]
    /\ out' = NoRes
    /\ pc' = "set"
    /\ UNCHANGED <<now, back, calls, frames>>

\* get_cached_data(key)
GetCached(key) ==
    /\ pc \in {"start", "set", "got", "ticked"}
    /\ out' = IF get_cache_path(key) \notin DOMAIN files THEN VNull
              ELSE ReadCached(files[get_cache_path(key)], now)
    /\ input' = [t |-> "get", key |-> key]
    /\ pc' = "got"
    /\ UNCHANGED <<files, now, last_set, back, calls, frames>>

\* time passes
Tick(d) ==
    /\ pc \in {"start", "set", "got", "ticked"}
    /\ now + d <= MaxClock
    /\ now' = now + d
    /\ input' = [t |-> "tick"]
    /\ out' = NoRes
    /\ pc' = "ticked"
    /\ UNCHANGED <<files, last_set, back, calls, frames>>

InitCache ==
    /\ input = NoRes
    /\ pc = "start"
    /\ out = NoRes
    /\ back = NoRes
    /\ NoThreads
    /\ NoCache

NextCache ==
    \/ \E key \in CacheKeys, data \in CacheData : SetCached(key, data)
    \/ \E key \in CacheKeys : GetCached(key)
    \/ \E d \in TickSteps : Tick(d)

\* the cache under sets, gets and the passing of time
SpecCache == InitCache /\ [][NextCache]_vars

(***************************************************************************)
(* One scan of the tokenizer, turn by turn                                 *)
(***************************************************************************)
MaxScanLen == 4

ScanAlphabet == {"a", ",", "\"", "\\", "[", "]", "{", "}"}

ScanTexts == AllTexts(ScanAlphabet, MaxScanLen)

\* one turn of the for loop on the locals of the call
ScanStep ==
    /\ pc = "scan"
    /\ frames[1].tok.i <= Len(input.s)
    /\ frames' = [frames EXCEPT ![1].tok = TokStep(frames[1].tok, input.s)]
    /\ UNCHANGED <<input, pc, out, back, calls, cache>>

\* the loop is over: the last piece, and the generator is exhausted
ScanReturn ==
    /\ pc = "scan"
    /\ frames[1].tok.i > Len(input.s)
    /\ out' = [t |-> "pieces", ps |-> TokFinish(frames[1].tok, input.s)]
    /\ pc' = "split"
    /\ UNCHANGED <<input, back, calls, frames, cache>>

InitScan ==
    /\ input \in {Text(s) : s \in ScanTexts}
    /\ pc = "scan"
    /\ out = NoRes
    /\ back = NoRes
    /\ calls = <<>>
    /\ frames = <<[tok |-> TokInit]>>
    /\ NoCache

NextScan == ScanStep \/ ScanReturn

\* _split_top_level_commas on a text, one character at a time
SpecScan == InitScan /\ [][NextScan]_vars

(***************************************************************************)
(* Calls interleaved on several threads                                    *)
(***************************************************************************)
NThreads == 2

\* calls a thread makes one after the other
MaxCalls == 2

Threads == 1..NThreads

\* the calls the threads choose from
ConcCalls ==
    {[op |-> "split", arg |-> Text(s)] :
        s \in {<<"a", ",", "b">>, <<"\"", "a", ",", "b">>, <<"[", "a", ",", "]", ",">>}}
    \cup {[op |-> "validate", arg |-> Text(s)] :
        s \in {<<"u", "{", "a", "}", "\n", "x">>, <<"u", "{", "a", "}", "\n", "x", ",", "y">>}}
    \cup {[op |-> "decode", arg |-> Text(s)] : s \in {<<"{", "a", "}", "\n", "1">>}}
    \cup {[op |-> "encode", arg |-> v] :
        v \in {VObj(<<KeyA>>, <<VStr(<<"x">>)>>),
               VList(<<VObj(<<KeyA>>, <<VInt(<<"1">>)>>), VInt(<<"5">>)>>)}}

\* mutant of Frame: the locals are kept in one place shared by all calls
Frame_Shared(p) == 1

\* the frame that holds the locals of the call thread p is making: every
\* call has its own (stack, in_quotes, esc, start of lines 151-154; lines,
\* current_section, expected_cols of lines 366-368)
Frame(p) == p

\* the locals at the start of a call
NewFrame(c) ==
    [arg   |-> c.arg,
     tok   |-> TokInit,
     lines |-> IF c.op = "validate" THEN SplitLines(Strip(c.arg.s)) ELSE <<>>,
     vst   |-> ValInit]

IdleCall == [op |-> "none", arg |-> NoRes, pc |-> "idle", ret |-> NoRes, n |-> 0]

\* thread p calls one of the four operations
Start(p) ==
    /\ calls[p].pc = "idle"
    /\ calls[p].n < MaxCalls
    /\ \E c \in ConcCalls :
          /\ calls' = [calls EXCEPT ![p] = [op |-> c.op, arg |-> c.arg, pc |-> "run",
                                            ret |-> NoRes, n |-> @.n + 1]]
          /\ frames' = [frames EXCEPT ![Frame(p)] = NewFrame(c)]
    /\ UNCHANGED <<input, pc, out, back, cache>>

Return(p, r) ==
    /\ calls' = [calls EXCEPT ![p].ret = r, ![p].pc = "done"]
    /\ UNCHANGED <<frames, input, pc, out, back, cache>>

\* one turn of the loop of _split_top_level_commas
SplitStep(p) ==
    LET f == frames[Frame(p)]
    IN  /\ calls[p].pc = "run" /\ calls[p].op = "split"
        /\ f.arg.t = "text" /\ f.tok.i <= Len(f.arg.s)
        /\ frames' = [frames EXCEPT ![Frame(p)].tok = TokStep(f.tok, f.arg.s)]
        /\ UNCHANGED <<calls, input, pc, out, back, cache>>

\* the generator is exhausted
SplitReturn(p) ==
    LET f == frames[Frame(p)]
    IN  /\ calls[p].pc = "run" /\ calls[p].op = "split"
        /\ f.arg.t = "text" /\ f.tok.i > Len(f.arg.s)
        /\ Return(p, [t |-> "pieces", ps |-> TokFinish(f.tok, f.arg.s)])

\* one turn of the loop of validate_toon
ValidateStep(p) ==
    LET f == frames[Frame(p)]
    IN  /\ calls[p].pc = "run" /\ calls[p].op = "validate"
        /\ f.vst.result.t = "running" /\ f.vst.i < Len(f.lines)
        /\ frames' = [frames EXCEPT ![Frame(p)].vst = ValStep(f.vst, f.lines)]
        /\ UNCHANGED <<calls, input, pc, out, back, cache>>

\* validate_toon raises or returns True
ValidateReturn(p) ==
    LET f == frames[Frame(p)]
    IN  /\ calls[p].pc = "run" /\ calls[p].op = "validate"
        /\ \/ f.vst.result.t = "raise" /\ Return(p, f.vst.result)
           \/ f.vst.result.t = "running" /\ f.vst.i >= Len(f.lines)
              /\ Return(p, [t |-> "true"])

\* encode returns or raises
EncodeReturn(p) ==
    LET f == frames[Frame(p)]
    IN  /\ calls[p].pc = "run" /\ calls[p].op = "encode"
        /\ f.arg.t # "text"
        /\ Return(p, encode(f.arg))

\* decode returns
DecodeReturn(p) ==
    LET f == frames[Frame(p)]
    IN  /\ calls[p].pc = "run" /\ calls[p].op = "decode"
        /\ f.arg.t = "text"
        /\ Return(p, decode(f.arg.s))

\* the caller takes the result; the thread is free for its next call
Release(p) ==
    /\ calls[p].pc = "done"
    /\ calls' = [calls EXCEPT ![p].pc = "idle"]
    /\ UNCHANGED <<frames, input, pc, out, back, cache>>

InitConc ==
    /\ NoSingle
    /\ NoCache
    /\ calls = [p \in Threads |-> IdleCall]
    /\ frames = [p \in Threads |-> NewFrame([op |-> "none", arg |-> NoRes])]

NextConc ==
    \E p \in Threads :
        \/ Start(p)
        \/ SplitStep(p)
        \/ SplitReturn(p)
        \/ ValidateStep(p)
        \/ ValidateReturn(p)
        \/ EncodeReturn(p)
        \/ DecodeReturn(p)
        \/ Release(p)

\* calls of encode, decode, validate_toon and the tokenizer interleaved
SpecConc == InitConc /\ [][NextConc]_vars

(***************************************************************************)
(* Properties                                                              *)
(***************************************************************************)
ScalarTags == {"null", "bool", "int", "float", "str"}

\* an Object every value of which is a scalar
IsFlatObject(v) == IsDict(v) /\ \A i \in 1..Len(v.vals) : v.vals[i].t \in ScalarTags

\* C1: for every flat Object v (every value a Null, Bool, Int, Float or
\* String), decode(encode(v)) equals v: same keys in the same order, each
\* value of the same variant and content.
C1_RoundTripFlat == (pc = "decoded" /\ IsFlatObject(input)) => back = input

\* a List of one or more Objects that all have the same keys in the same order
IsTabularList(v) ==
    /\ IsList(v) /\ v.items # <<>>
    /\ \A i \in 1..Len(v.items) : IsDict(v.items[i]) /\ v.items[i].keys = v.items[1].keys

\* C2: for every List v of one or more Objects with the same keys in the same
\* order, decode(encode(v)) equals v, for every length from 1 upward.
C2_RoundTripTabular == (pc = "decoded" /\ IsTabularList(input)) => back = input

\* C3: decode never raises: for every input text it returns a Value, and
\* decode("") returns Null.
C3_DecodeNeverRaises ==
    (pc = "decoded" /\ IsTextInput(input)) =>
        /\ out.t # "raise"
        /\ (TextOf(input) = <<>> => out = VNull)

\* C4: encode raises if and only if its top-level argument is neither a List
\* nor an Object, whatever the elements of a List or Object.
C4_EncodeRaisesIff ==
    pc = "encoded" => ((out.t = "raise") <=> ~(IsList(input) \/ IsDict(input)))

\* the stripped lines of a text, as validate_toon walks them
C5_Lines(text) ==
    LET ls == SplitLines(Strip(text)) IN [i \in 1..Len(ls) |-> Strip(ls[i])]

\* the columns a header line declares: one more than its commas
C5_Declared(line) == Cardinality({i \in 1..Len(line) : line[i] = ","}) + 1

\* line i is a data row of the section opened by header line h
C5_RowOf(L, i, h) ==
    /\ h < i /\ LineHeader(L[h]).ok
    /\ L[i] # <<>> /\ ~LineHeader(L[i]).ok
    /\ \A j \in (h + 1)..(i - 1) : L[j] # <<>> /\ ~LineHeader(L[j]).ok

\* line i lies in an active section and has another field count than declared
C5_Offending(L, i) ==
    \E h \in 1..Len(L) :
        C5_RowOf(L, i, h) /\ Len(_split_top_level_commas(L[i])) # C5_Declared(L[h])

\* C5: validate fails if and only if some non-blank, non-header line inside
\* an active section splits into a number of fields different from the
\* number of columns of that section's header; otherwise, and for empty
\* input, it returns success.
C5_ValidateFailsIff ==
    pc = "validated" =>
        /\ out.t \in {"raise", "true"}
        /\ (out.t = "raise") <=> (\E i \in 1..Len(C5_Lines(TextOf(input))) :
                                      C5_Offending(C5_Lines(TextOf(input)), i))
        /\ (TextOf(input) = <<>> => out.t = "true")

\* C5 witness: the row Bruno of the users text is rejected
C5_Witness ==
    /\ pc = "validated" /\ input = Text(UsersText) /\ out.t = "raise"
    /\ C5_Offending(C5_Lines(UsersText), 3)

\* the lines of the input text as given, each stripped
C6_RawLines(text) ==
    LET ls == SplitOn(text, LineBreak) IN [i \in 1..Len(ls) |-> Strip(ls[i])]

\* C6: when validate fails, the error names the first offending row in scan
\* order: its section, the 1-based number of the line counted in the input
\* text as given, the actual and the expected field count, and a preview of
\* the line of at most 50 characters.
C6_ErrorLocation ==
    (pc = "validated" /\ out.t = "raise") =>
        LET L   == C6_RawLines(TextOf(input))
            bad == {i \in 1..Len(L) : C5_Offending(L, i)}
        IN  /\ bad # {}
            /\ out.row = SetMin(bad)
            /\ \E h \in 1..Len(L) :
                  /\ C5_RowOf(L, SetMin(bad), h)
                  /\ out.section = LineHeader(L[h]).name
                  /\ out.expected = C5_Declared(L[h])
            /\ out.actual = Len(_split_top_level_commas(L[SetMin(bad)]))
            /\ Len(out.content) <= 50
            /\ out.content = SubSeq(L[SetMin(bad)], 1, Len(out.content))

\* the three conditions under which a String is quoted
C7_NeedsQuotes(s) ==
    \/ Len(s) >= 1 /\ s[1] \in Digits
    \/ Len(s) >= 2 /\ s[1] = "-" /\ s[2] \in Digits
    \/ \E i \in 1..Len(s) : s[i] \in {",", "[", "]", "{", "}", "\n", "\r", "\""}
    \/ Lower(s) \in {<<"t", "r", "u", "e">>, <<"f", "a", "l", "s", "e">>,
                     <<"n", "u", "l", "l">>, <<"n", "o", "n", "e">>}

\* C7: encode_value on a String s returns s in double quotes with every
\* embedded double quote escaped as backslash-quote if and only if (a), (b)
\* or (c) holds, else s unchanged.
C7_QuotingRule ==
    (pc = "cell" /\ input.t = "str") =>
        out.s = IF C7_NeedsQuotes(input.s)
                THEN <<"\"">> \o EscapeQuotes(input.s) \o <<"\"">>
                ELSE input.s

\* the cell of element `it` under column k: null when `it` lacks the key
C8_Cell(it, k) ==
    IF IsDict(it) /\ \E j \in 1..Len(it.keys) : it.keys[j] = k
    THEN encode_value(it.vals[CHOOSE j \in 1..Len(it.keys) : it.keys[j] = k])
    ELSE <<"n", "u", "l", "l">>

\* the tabular block of the claim: the columns are the keys of the first
\* element, one row per element, one cell per column
C8_Table(name, items) ==
    LET cols == items[1].keys
        row(i) == Join([c \in 1..Len(cols) |-> C8_Cell(items[i], cols[c])], <<",">>)
    IN  name \o <<"{">> \o Join(cols, <<",">>) \o <<"}", "\n">>
             \o Join([i \in 1..Len(items) |-> row(i)], <<"\n">>)

C8_IsTableList(v) == IsList(v) /\ v.items # <<>> /\ IsDict(v.items[1])

WideningList == VList(<<VObj(<<KeyA, KeyB>>, <<VInt(<<"1">>), VInt(<<"2">>)>>),
                        VObj(<<KeyA>>, <<VInt(<<"3">>)>>)>>)

NarrowingList == VList(<<VObj(<<KeyA>>, <<VInt(<<"1">>)>>),
                         VObj(<<KeyA, KeyB>>, <<VInt(<<"2">>), VInt(<<"3">>)>>)>>)

\* C8: a List whose first element is an Object, rendered as a tabular block,
\* has the keys of the first element as header columns, one data row per
\* element, one cell per column, null for a key an element lacks, and no
\* trace of a key the first element lacks.
C8_TabularBlock ==
    (pc = "encoded" /\ out.t = "text") =>
        /\ C8_IsTableList(input) => out.s = C8_Table(<<>>, input.items)
        /\ (IsDict(input) /\ Len(input.keys) = 1 /\ C8_IsTableList(input.vals[1]))
              => out.s = C8_Table(input.keys[1], input.vals[1].items)
        /\ input = VObj(<<KeyMeta>>, <<NarrowingList>>)
              => out.s = <<"m", "e", "t", "a", "{", "a", "}", "\n", "1", "\n", "2">>

\* C8 witness: the second row of the widening list has null under b
C8_Witness ==
    /\ pc = "encoded"
    /\ input = VObj(<<KeyTags>>, <<WideningList>>)
    /\ out = Text(<<"t", "a", "g", "s", "{", "a", ",", "b", "}", "\n",
                    "1", ",", "2", "\n", "3", ",", "n", "u", "l", "l">>)

\* an Object with a value that is an Object or a List whose first element is one
C9_IsComplex(v) ==
    /\ IsDict(v)
    /\ \E i \in 1..Len(v.vals) : IsDict(v.vals[i]) \/ C8_IsTableList(v.vals[i])

\* the block of one top-level key
C9_Block(name, value) ==
    IF IsList(value)
    THEN IF value.items = <<>> THEN name \o <<"{", "}">>
         ELSE IF IsDict(value.items[1]) THEN C8_Table(name, value.items)
         ELSE name \o <<"[">>
                   \o Join([i \in 1..Len(value.items) |-> encode_value(value.items[i])],
                           <<",", " ">>)
                   \o <<"]">>
    ELSE IF IsDict(value)
    THEN name \o <<"{">> \o Join(value.keys, <<",">>) \o <<"}", "\n">>
              \o Join([i \in 1..Len(value.vals) |-> encode_value(value.vals[i])], <<",">>)
    ELSE name \o <<":", " ">> \o encode_value(value)

\* a List that starts with an Object and holds an element that is none:
\* the list block raises on it
C9_MixedList(v) ==
    /\ C8_IsTableList(v) /\ v.items[1].keys # <<>>
    /\ \E i \in 1..Len(v.items) : ~IsDict(v.items[i])

\* C9: encode of a top-level Object with a value that is an Object, or a List
\* whose first element is an Object, emits one block per top-level key in key
\* order: the list block for a List, name{k1,...} and one line of values for
\* an Object, name: encode_value(value) otherwise; {tags: [x, y], meta: {k: 1}}
\* gives tags[x, y] and meta{k} followed by the line 1.
C9_ComplexBlocks ==
    (pc = "encoded" /\ C9_IsComplex(input)) =>
        /\ out.t = "text"
        /\ out.s = Join([i \in 1..Len(input.keys) |-> C9_Block(input.keys[i], input.vals[i])],
                        <<"\n", "\n">>)
        /\ input = VObj(<<KeyTags, KeyMeta>>, <<TagsList, MetaObj>>)
              => out = Text(<<"t", "a", "g", "s", "[", "x", ",", " ", "y", "]", "\n", "\n",
                              "m", "e", "t", "a", "{", "k", "}", "\n", "1">>)

\* C9, what holds of the code: the blocks are as claimed unless the list
\* block of some key raises, and then encode raises and emits nothing
C9_BlocksUnlessRaise ==
    (pc = "encoded" /\ C9_IsComplex(input)) =>
        /\ \/ /\ out.t = "text"
              /\ out.s = Join([i \in 1..Len(input.keys) |->
                                  C9_Block(input.keys[i], input.vals[i])],
                              <<"\n", "\n">>)
           \/ /\ out.t = "raise"
              /\ \E i \in 1..Len(input.vals) : C9_MixedList(input.vals[i])
        /\ input = VObj(<<KeyTags, KeyMeta>>, <<TagsList, MetaObj>>)
              => out = Text(<<"t", "a", "g", "s", "[", "x", ",", " ", "y", "]", "\n", "\n",
                              "m", "e", "t", "a", "{", "k", "}", "\n", "1">>)

\* what the call returns when it runs alone
C10_Alone(op, arg) ==
    CASE op = "split"    -> [t |-> "pieces", ps |-> _split_top_level_commas(arg.s)]
      [] op = "validate" -> validate_toon(arg.s)
      [] op = "decode"   -> decode(arg.s)
      [] op = "encode"   -> encode(arg)

\* C10: calls of encode, decode, validate and the Tokenizer share no mutable
\* state: under every interleaving each call returns what it returns when
\* run alone, whether it returns or raises, and whatever calls ran before it.
C10_NoSharedState ==
    \A p \in DOMAIN calls :
        calls[p].pc = "done" => calls[p].ret = C10_Alone(calls[p].op, calls[p].arg)

\* C10 witness: a second call that raised returns while the other thread is
\* in the middle of a scan
C10_Witness ==
    \E p \in DOMAIN calls, q \in DOMAIN calls :
        /\ p # q
        /\ calls[p].pc = "done" /\ calls[p].n = 2 /\ calls[p].ret.t = "raise"
        /\ calls[q].pc = "run" /\ calls[q].op = "split" /\ frames[Frame(q)].tok.i = 3

\* the URL after removal of query string, fragment and trailing slashes
\* (surrounding whitespace is no part of a URL)
C11_Url(s) ==
    LET t == Strip(s)
        cut == {i \in 1..Len(t) : t[i] \in {"?", "#"}}
        u == IF cut = {} THEN t ELSE SubSeq(t, 1, SetMin(cut) - 1)
        keep == {i \in 1..Len(u) : u[i] # "/"}
    IN  IF keep = {} THEN <<>> ELSE SubSeq(u, 1, SetMax(keep))

\* the path segments that follow an occurrence of `marker` at position p
C11_After(u, marker, p) == SplitOn(SubSeq(u, p + Len(marker), Len(u)), "/")

\* C11: extract_resource(url) returns {type: dataset, id: owner/name} when the
\* URL, after removal of query string, fragment and trailing slash, contains
\* /datasets/ followed by at least two path segments; otherwise
\* {type: competition, id: first segment} when it contains /competitions/ or
\* /c/; and raises URLParseError in every other case, including an empty
\* string and a non-string argument
C11_ExtractResource ==
    pc = "extracted" =>
        IF input.t # "str" THEN out = Raise("URLParseError")
        ELSE LET u == C11_Url(input.s)
                 ds == {p \in 1..Len(u) : /\ OccursAt(u, SlashDatasets, p)
                                          /\ Len(C11_After(u, SlashDatasets, p)) >= 2}
                 cs == {p \in 1..Len(u) : OccursAt(u, SlashCompetitions, p)}
                 ss == {p \in 1..Len(u) : OccursAt(u, SlashC, p)}
             IN  IF ds # {}
                 THEN \E p \in ds :
                          LET segs == C11_After(u, SlashDatasets, p)
                          IN  out = Resource(TypeDataset, segs[1] \o <<"/">> \o segs[2])
                 ELSE IF cs \cup ss # {}
                 THEN \/ \E p \in cs :
                            out = Resource(TypeCompetition, C11_After(u, SlashCompetitions, p)[1])
                      \/ \E p \in ss :
                            out = Resource(TypeCompetition, C11_After(u, SlashC, p)[1])
                 ELSE out = Raise("URLParseError")

\* C12: after set_cached_data(key, data), get_cached_data(key) returns a value
\* equal to data as long as less than 24 hours have passed and no later set on
\* the key has run; after any sequence of sets a get returns the data of the
\* most recent set; once the entry is 24 hours old or older, get returns None
C12_CacheRoundTrip ==
    (pc = "got" /\ input.key \in DOMAIN last_set) =>
        LET e == last_set[input.key]
        IN  IF now - e.at < 24 * 3600 THEN out = e.data ELSE out = VNull

\* C12, what holds of the code: the claim on the data that json.dump and
\* json.load give back unchanged
C12_HoldsOnJsonData ==
    (/\ pc = "got" /\ input.key \in DOMAIN last_set
     /\ Serializable(last_set[input.key].data)
     /\ JsonRoundTrip(last_set[input.key].data) = last_set[input.key].data) =>
        LET e == last_set[input.key]
        IN  IF now - e.at < 24 * 3600 THEN out = e.data ELSE out = VNull

\* no value is an Object and no value is a List whose first element is an Object
C13_IsSimple(v) ==
    \A i \in 1..Len(v.vals) :
        /\ ~IsDict(v.vals[i])
        /\ ~(IsList(v.vals[i]) /\ v.vals[i].items # <<>> /\ IsDict(v.vals[i].items[1]))

\* the header {k1,k2,...} without a name, then the values joined by ","
C13_Inline(v) ==
    <<"{">> \o Join(v.keys, <<",">>) \o <<"}">> \o <<"\n">>
        \o Join([i \in 1..Len(v.vals) |-> encode_value(v.vals[i])], <<",">>)

\* the number of lines of a text: one more than its line breaks
C13_LineCount(s) == Cardinality({i \in 1..Len(s) : s[i] = "\n"}) + 1

\* C13: encode classifies a top-level Object as simple exactly when no value
\* is an Object and no value is a List whose first element is an Object; for a
\* simple Object the output is exactly two lines: the header {k1,k2,...} with
\* all keys in order and no name, then one data line of the encode_value
\* results of the values in key order joined by ","
C13_SimpleObject ==
    (pc = "encoded" /\ IsDict(input)) =>
        IF C13_IsSimple(input)
        THEN /\ out = Text(C13_Inline(input))
             /\ C13_LineCount(out.s) = 2
        ELSE out # Text(C13_Inline(input))

\* C13, what holds of the code: the classification and the inline form,
\* whatever the number of lines the encoded values take
C13_InlineForm ==
    (pc = "encoded" /\ IsDict(input)) =>
        (C13_IsSimple(input) <=> out = Text(C13_Inline(input)))

\* name[e1, e2, ...]: the elements encoded by encode_value
C14_InlineArray(name, items) ==
    name \o <<"[">> \o Join([i \in 1..Len(items) |-> encode_value(items[i])], <<",", " ">>)
         \o <<"]">>

\* C14: the list block renderer, given (name, items), returns name{} (or {}
\* when unnamed) for an empty list; the inline array name[e1, e2, ...] (or the
\* bare bracketed form when unnamed) with elements encoded by encode_value
\* when the first item is not an Object; and a tabular block only when the
\* first item is an Object.  Only the first item decides among the three.
C14_ListBlock ==
    pc = "block" =>
        LET items == input.items
        IN  /\ items = <<>> => out.res = Text(out.name \o <<"{", "}">>)
            /\ (items # <<>> /\ ~IsDict(items[1]))
                  => out.res = Text(C14_InlineArray(out.name, items))
            /\ (items # <<>> /\ IsDict(items[1]) /\ out.res.t = "text")
                  => out.res.s = C8_Table(out.name, items)

\* C14 witness: a named list of a number and an Object is rendered as an
\* inline array, the Object inline
C14_Witness ==
    /\ pc = "block"
    /\ input = VList(<<VInt(<<"5">>), VObj(<<KeyA>>, <<VInt(<<"1">>)>>)>>)
    /\ out.name = KeyTags
    /\ out.res = Text(<<"t", "a", "g", "s", "[", "5", ",", " ", "{", "a", ":", " ", "1", "}", "]">>)

\* the number of blocks encode writes for a value
C15_Blocks(v) == IF IsDict(v) /\ ~C13_IsSimple(v) THEN Len(v.keys) ELSE 1

\* the number of empty lines of a text that have a line after them
C15_BlankLines(s) ==
    LET lines == SplitOn(s, "\n")
    IN  Cardinality({i \in 1..(Len(lines) - 1) : lines[i] = <<>>})

\* C15: in every encode output, consecutive blocks are separated by exactly
\* one blank line, and inside a block the header and each data line are
\* separated by a single newline, so that no blank line occurs between a
\* header and its first row or between two rows, for every input value: the
\* only blank lines of the output are the ones between two blocks
C15_BlankLineOnlyBetweenBlocks ==
    (pc = "encoded" /\ out.t = "text") =>
        C15_BlankLines(out.s) = C15_Blocks(input) - 1

RECURSIVE C16_Inline(_)
\* the inline text of the claim; a String is written by the quoting rule
C16_Inline(v) ==
    CASE v.t = "null" -> <<"n", "u", "l", "l">>
      [] v.t = "bool" -> IF v.b THEN <<"t", "r", "u", "e">> ELSE <<"f", "a", "l", "s", "e">>
      [] v.t = "int" -> v.dec
      [] v.t = "float" -> v.rep
      [] v.t = "str" -> encode_str(v.s)
      [] v.t = "list" ->
            <<"[">> \o Join([i \in 1..Len(v.items) |-> C16_Inline(v.items[i])], <<",", " ">>)
                    \o <<"]">>
      [] v.t = "obj" ->
            <<"{">> \o Join([i \in 1..Len(v.keys) |->
                                v.keys[i] \o <<":", " ">> \o C16_Inline(v.vals[i])],
                            <<",", " ">>)
                    \o <<"}">>

\* C16: encode_value returns null for Null, true or false for a Bool, the
\* decimal text for a number, [ + elements joined by ", " + ] for a List and
\* { + k: v pairs in key order joined by ", " + } for an Object, recursively
\* and always on one line at every nesting depth
C16_InlineOneLine ==
    pc = "cell" =>
        /\ out = Text(C16_Inline(input))
        /\ input.t \in {"list", "obj"} => \A i \in 1..Len(out.s) : out.s[i] # "\n"

\* C16, what holds of the code: the inline text at every nesting depth
C16_InlineForm == pc = "cell" => out = Text(C16_Inline(input))

\* the character at i follows an odd run of backslashes: the scan takes it
\* as a literal
C17_Escaped(t, i) ==
    LET before == {j \in 1..(i - 1) : t[j] # "\\"}
        run == IF before = {} THEN i - 1 ELSE i - 1 - SetMax(before)
    IN  run % 2 = 1

\* the character at i stands inside a double-quoted string
C17_InQuotes(t, i) ==
    Cardinality({j \in 1..(i - 1) : t[j] = "\"" /\ ~C17_Escaped(t, j)}) % 2 = 1

\* opening minus closing brackets met outside quotes before position i
C17_Balance(t, i) ==
    LET met(cs) == Cardinality({j \in 1..(i - 1) :
                       t[j] \in cs /\ ~C17_Escaped(t, j) /\ ~C17_InQuotes(t, j)})
    IN  met({"[", "{"}) - met({"]", "}"})

\* the nesting depth at position i: a closing bracket at depth 0 is ignored
C17_Depth(t, i) == C17_Balance(t, i) - SetMin({C17_Balance(t, j) : j \in 1..i})

\* the commas outside quotes and outside every bracket nesting
C17_TopLevelCommas(t) ==
    {i \in 1..Len(t) : t[i] = "," /\ ~C17_InQuotes(t, i) /\ C17_Depth(t, i) = 0}

\* the k-th smallest element of a set of numbers
C17_Nth(S, k) == CHOOSE x \in S : Cardinality({y \in S : y < x}) = k - 1

\* the trimmed substrings of t delimited by the positions in cuts
C17_Pieces(t, cuts) ==
    LET n == Cardinality(cuts)
        from(k) == IF k = 1 THEN 1 ELSE C17_Nth(cuts, k - 1) + 1
        to(k) == IF k = n + 1 THEN Len(t) ELSE C17_Nth(cuts, k) - 1
    IN  [k \in 1..(n + 1) |-> Strip(SubSeq(t, from(k), to(k)))]

\* C17: the Tokenizer returns, in order and trimmed, exactly the substrings of
\* its input delimited by the commas that are neither inside a double-quoted
\* string nor inside any [] or {} nesting: a comma is a split point if and
\* only if the bracket stack is empty and the scan is not inside quotes
C17_SplitsAtTopLevelCommas ==
    pc = "split" =>
        out.ps = C17_Pieces(TextOf(input), C17_TopLevelCommas(TextOf(input)))

\* C17, what holds of the code: a comma that follows a backslash is no split
\* point either, and the last piece is left out when no character follows
\* the last split point
C17_SplitsAsScanned ==
    pc = "split" =>
        LET t == TextOf(input)
            cuts == {i \in C17_TopLevelCommas(t) : ~C17_Escaped(t, i)}
            ps == C17_Pieces(t, cuts)
        IN  out.ps = IF t = <<>> \/ Len(t) \in cuts
                     THEN SubSeq(ps, 1, Len(ps) - 1)
                     ELSE ps

\* C18: the Tokenizer always emits a final piece after the scan ends: an input
\* with n top-level commas yields exactly n + 1 pieces, also when the text
\* after the last top-level comma is empty and when the input has no comma
C18_FinalPieceAlways ==
    pc = "split" =>
        LET t == TextOf(input)
            n == Cardinality({i \in C17_TopLevelCommas(t) : ~C17_Escaped(t, i)})
        IN  Len(out.ps) = n + 1

\* C19: the Tokenizer never raises on an unterminated quote or on unbalanced
\* brackets: a closing ] or } met with an empty stack is ignored and leaves
\* the stack empty, the stack depth is never negative, brackets met inside
\* quotes leave the stack unchanged, and the scan ends with whatever state
\* remains and returns the pieces found
C19_ScanNeverRejects ==
    [][pc = "scan" =>
          LET st == frames[1].tok
              st2 == frames'[1].tok
          IN  /\ pc' = "scan" =>
                    LET ch == input.s[st.i]
                        met == ~st.esc /\ ch \notin {"\\", "\""}
                    IN  /\ st2.i = st.i + 1
                        /\ Len(st2.stack) >= 0
                        /\ (met /\ ~st.in_quotes /\ ch \in {"]", "}"} /\ st.stack = <<>>)
                              => st2.stack = <<>>
                        /\ (met /\ st.in_quotes /\ ch \in {"[", "]", "{", "}"})
                              => st2.stack = st.stack
              /\ pc' = "split" =>
                    /\ st.i = Len(input.s) + 1
                    /\ out'.t = "pieces"
                    /\ SubSeq(out'.ps, 1, Len(st.out)) = st.out
                    /\ Len(out'.ps) \in {Len(st.out), Len(st.out) + 1}]_vars

\* C19 witness: a scan that met a closing bracket at an empty stack, then a
\* bracket and a comma inside a quote that is never closed, has returned its
\* one piece
C19_Witness ==
    /\ pc = "split"
    /\ input = Text(<<"]", "\"", "[", ",">>)
    /\ frames[1].tok.stack = <<>>
    /\ frames[1].tok.in_quotes
    /\ out = [t |-> "pieces", ps |-> <<<<"]", "\"", "[", ",">>>>]

\* -?digits
C20_IsInt(t) ==
    LET d == IF Len(t) >= 1 /\ t[1] = "-" THEN SubSeq(t, 2, Len(t)) ELSE t
    IN  Len(d) >= 1 /\ \A i \in 1..Len(d) : d[i] \in Digits

\* -?digits.digits
C20_IsFloat(t) ==
    LET d == IF Len(t) >= 1 /\ t[1] = "-" THEN SubSeq(t, 2, Len(t)) ELSE t
    IN  \E k \in 2..(Len(d) - 1) :
            /\ d[k] = "."
            /\ \A i \in 1..Len(d) : i # k => d[i] \in Digits

\* t with every \" replaced by ", left to right
C20_Unescape(t) ==
    LET hit(i) == i < Len(t) /\ t[i] = "\\" /\ t[i + 1] = "\""
        \* position i is the backslash of a replaced pair: the pairs do not overlap
        kept == {i \in 1..Len(t) : ~hit(i)}
    IN  [k \in 1..Cardinality(kept) |-> t[C17_Nth(kept, k)]]

\* what the claim gives for the trimmed token t, when t is not wrapped in
\* brackets or braces
C20_Holds(t, res) ==
    IF t = <<>> \/ Lower(t) \in {<<"n", "u", "l", "l">>, <<"n", "o", "n", "e">>}
    THEN res = VNull
    ELSE IF Lower(t) = <<"t", "r", "u", "e">> THEN res = VBool(TRUE)
    ELSE IF Lower(t) = <<"f", "a", "l", "s", "e">> THEN res = VBool(FALSE)
    ELSE IF t[1] = "\"" /\ t[Len(t)] = "\""
    THEN res = VStr(C20_Unescape(SubSeq(t, 2, Len(t) - 1)))
    ELSE IF (t[1] = "[" /\ t[Len(t)] = "]") \/ (t[1] = "{" /\ t[Len(t)] = "}") THEN TRUE
    ELSE IF C20_IsInt(t) THEN res.t = "int"
    ELSE IF C20_IsFloat(t) THEN res.t = "float"
    ELSE res = VStr(t)

\* C20: parse_value on one isolated token returns Null for an empty or
\* whitespace-only token and for null/none in any letter case, a Bool for
\* true/false in any letter case, a String with \" replaced by " for a token
\* wrapped in double quotes, an Int for a token matching -?digits, a Float for
\* a token matching -?digits.digits, and the token itself as a String in every
\* remaining case that is not bracket- or brace-wrapped; the cell "42" under
\* header {a,b} decodes to the String 42 and the cell null to Null
C20_ScalarTokens ==
    /\ pc = "parsed" => C20_Holds(Strip(TextOf(input)), out)
    /\ (pc = "decoded" /\ input = Text(ScalarExample))
          => out = VObj(<<KeyA, KeyB>>, <<VStr(<<"4", "2">>), VNull>>)

\* C20, what holds of the code: the claim on every token of at most
\* IntMaxStrDigits digits
C20_ScalarTokensInRange ==
    /\ (pc = "parsed" /\ Len(TextOf(input)) <= IntMaxStrDigits)
          => C20_Holds(Strip(TextOf(input)), out)
    /\ (pc = "decoded" /\ input = Text(ScalarExample))
          => out = VObj(<<KeyA, KeyB>>, <<VStr(<<"4", "2">>), VNull>>)

(***************************************************************************)
(* C21 .. C30                                                              *)
(***************************************************************************)
\* the part of the piece p before its first colon, trimmed, with the double
\* quotes at its two ends removed
C21_Key(p) ==
    LET c == CHOOSE i \in 1..Len(p) : p[i] = ":" /\ \A j \in 1..(i - 1) : p[j] # ":"
    IN  StripChars(Strip(SubSeq(p, 1, c - 1)), {"\""})

\* the part of the piece p after its first colon
C21_Rest(p) ==
    LET c == CHOOSE i \in 1..Len(p) : p[i] = ":" /\ \A j \in 1..(i - 1) : p[j] # ":"
    IN  SubSeq(p, c + 1, Len(p))

C21_HasColon(p) == \E i \in 1..Len(p) : p[i] = ":"

\* the list half of the claim, on the trimmed token t wrapped in [ ]
C21_List(t, res) ==
    LET inner == Strip(SubSeq(t, 2, Len(t) - 1))
        ps    == _split_top_level_commas(inner)
    IN  IF inner = <<>> THEN res = VList(<<>>)
        ELSE res = VList([i \in 1..Len(ps) |-> parse_value(ps[i])])

\* the object half of the claim, on the trimmed token t wrapped in { }: one
\* entry per piece, in the order of the pieces
C21_Object(t, res) ==
    LET inner == Strip(SubSeq(t, 2, Len(t) - 1))
        ps    == _split_top_level_commas(inner)
    IN  IF inner = <<>> THEN res = VObj(<<>>, <<>>)
        ELSE /\ res.t = "obj"
             /\ Len(res.keys) = Len(ps)
             /\ \A i \in 1..Len(ps) :
                    /\ C21_HasColon(ps[i])
                    /\ res.keys[i] = C21_Key(ps[i])
                    /\ res.vals[i] = parse_value(C21_Rest(ps[i]))

C21_IsList(t) == StartsWith(t, "[") /\ EndsWith(t, "]")

C21_IsObject(t) == StartsWith(t, "{") /\ EndsWith(t, "}")

\* C21: parse_value on a token wrapped in [ ] returns the List of parse_value
\* applied to each top-level-comma piece of the interior, and the empty List
\* for an empty interior; on a token wrapped in { } it splits each piece on
\* its first colon into key and value, strips and unquotes the key, parses
\* the value, and returns an Object with one entry per piece, the empty
\* Object for an empty interior
C21_Collections ==
    pc = "parsed" =>
        LET t == Strip(TextOf(input))
        IN  /\ C21_IsList(t) => C21_List(t, out)
            /\ C21_IsObject(t) => C21_Object(t, out)

\* C21, what holds of the code: the list half as claimed, and the object
\* half with one entry per distinct key among the pieces that hold a colon,
\* the last piece of a key giving its value
C21_CollectionsAsCoded ==
    pc = "parsed" =>
        LET t     == Strip(TextOf(input))
            inner == Strip(SubSeq(t, 2, Len(t) - 1))
            ps    == _split_top_level_commas(inner)
            with  == {i \in 1..Len(ps) : C21_HasColon(ps[i])}
            last  == {i \in with : \A j \in with : j > i => C21_Key(ps[j]) # C21_Key(ps[i])}
        IN  /\ C21_IsList(t) => C21_List(t, out)
            /\ C21_IsObject(t) =>
                  /\ out.t = "obj"
                  /\ Len(out.keys) = Cardinality(last)
                  /\ \A i \in last : \E k \in 1..Len(out.keys) :
                         /\ out.keys[k] = C21_Key(ps[i])
                         /\ out.vals[k] = parse_value(C21_Rest(ps[i]))

\* a non-empty run of letters, digits and underscores
C22_IsIdent(s) == s # <<>> /\ \A i \in 1..Len(s) : s[i] \in IdentChars

\* the line l is an optional identifier, then a brace-enclosed list of
\* identifiers separated by commas, and nothing else
C22_HeaderLine(l) ==
    \E o \in 1..Len(l) :
        /\ l[o] = "{"
        /\ l[Len(l)] = "}"
        /\ \A i \in 1..(o - 1) : l[i] \in IdentChars
        /\ LET cols == SplitOn(SubSeq(l, o + 1, Len(l) - 1), ",")
           IN  \A k \in 1..Len(cols) : C22_IsIdent(Strip(cols[k]))

\* the lines of the text t as <<first, last>> positions, empty lines left out
C22_LineSpans(t) ==
    {sp \in (1..Len(t)) \X (1..Len(t)) :
        /\ sp[1] <= sp[2]
        /\ AtLineStart(t, sp[1])
        /\ (sp[2] = Len(t) \/ t[sp[2] + 1] = LineBreak)
        /\ \A i \in sp[1]..sp[2] : t[i] # LineBreak}

\* the text t holds a header line
C22_HasHeaderLine(t) ==
    \E sp \in C22_LineSpans(t) : C22_HeaderLine(SubSeq(t, sp[1], sp[2]))

\* C22: decode returns parse_value of the trimmed text, without looking for
\* headers, when the trimmed text is wrapped in [ ], and also when the text
\* holds no header line; the result is Null for empty text
C22_NoHeaderIsParseValue ==
    pc = "decoded" =>
        LET t == Strip(TextOf(input))
        IN  /\ C21_IsList(t) => out = parse_value(t)
            /\ ~C22_HasHeaderLine(t) => out = parse_value(t)
            /\ t = <<>> => out = VNull

\* C22, what holds of the code: the same with "no header line" read as "no
\* match of the header expression of line 244"
C22_NoMatchIsParseValue ==
    pc = "decoded" =>
        LET t == Strip(TextOf(input))
        IN  /\ C21_IsList(t) => out = parse_value(t)
            /\ FindHeaders(t, 1) = <<>> => out = parse_value(t)
            /\ t = <<>> => out = VNull

\* the spans of the text t that decode takes as headers
C23_Matched(t) ==
    LET ms == FindHeaders(t, 1)
    IN  {<<ms[i].start, ms[i].stop>> : i \in 1..Len(ms)}

\* C23: decode treats a line as a header if and only if the whole line is an
\* optional identifier followed by a brace-enclosed, comma-separated list of
\* identifiers and nothing else; no data row, no row whose only cell is an
\* inline {k: v} object, and no text spanning several lines is a header
C23_HeaderIffHeaderLine ==
    (pc = "decoded" /\ ~C21_IsList(Strip(TextOf(input)))) =>
        LET t == Strip(TextOf(input))
        IN  C23_Matched(t) =
                {sp \in C22_LineSpans(t) : C22_HeaderLine(SubSeq(t, sp[1], sp[2]))}

\* C23, what holds of the code: a span taken as a header starts at a line
\* start, ends at a line end, and holds an opening brace, at least one
\* character other than a closing brace, and the closing brace as its last
\* character; every header line outside such a span is taken as a header
C23_HeaderAsCoded ==
    (pc = "decoded" /\ ~C21_IsList(Strip(TextOf(input)))) =>
        LET t == Strip(TextOf(input))
        IN  /\ \A m \in C23_Matched(t) :
                   /\ AtLineStart(t, m[1])
                   /\ (m[2] = Len(t) \/ t[m[2] + 1] = LineBreak)
                   /\ t[m[2]] = "}"
                   /\ \E o \in m[1]..(m[2] - 2) :
                          /\ t[o] = "{"
                          /\ \A i \in m[1]..(o - 1) : t[i] \in IdentChars
                          /\ \A i \in (o + 1)..(m[2] - 1) : t[i] # "}"
            /\ \A sp \in C22_LineSpans(t) :
                   C22_HeaderLine(SubSeq(t, sp[1], sp[2])) =>
                       \E m \in C23_Matched(t) : m[1] <= sp[1] /\ sp[2] <= m[2]

\* res is the Object that pairs the columns `keys` positionally with the
\* parsed top-level-comma fields of the line ln: the pairs run as far as the
\* shorter of the two, a column met twice keeps its first place and its last
\* field
C24_Pairs(keys, ln, res) ==
    LET ps     == _split_top_level_commas(ln)
        n      == IF Len(ps) < Len(keys) THEN Len(ps) ELSE Len(keys)
        firsts == {i \in 1..n : \A j \in 1..(i - 1) : keys[j] # keys[i]}
    IN  /\ res.t = "obj"
        /\ Len(res.keys) = Cardinality(firsts)
        /\ \A k \in 1..Len(res.keys) :
               /\ res.keys[k] = keys[C17_Nth(firsts, k)]
               /\ res.vals[k] =
                      parse_value(ps[SetMax({i \in 1..n : keys[i] = res.keys[k]})])

\* res is the value of a block with the columns `keys` and the data lines
\* `lines`: one Object for one line, else a List with one Object per line
C24_Block(keys, lines, res) ==
    IF Len(lines) = 1 THEN C24_Pairs(keys, lines[1], res)
    ELSE /\ res.t = "list"
         /\ Len(res.items) = Len(lines)
         /\ \A i \in 1..Len(lines) : C24_Pairs(keys, lines[i], res.items[i])

\* the trimmed text t goes past the [ ] shortcut and decode finds exactly one
\* header, which has no name
C24_OneUnnamed(t) ==
    /\ ~C21_IsList(t)
    /\ Len(FindHeaders(t, 1)) = 1
    /\ FindHeaders(t, 1)[1].name = <<>>

\* C24: when decode finds exactly one header and that header has no name,
\* the result is not wrapped in a keyed Object: with exactly one non-empty
\* data line it is a single Object pairing the header columns positionally
\* with the parsed top-level-comma fields of that line, and with several
\* data lines it is a List with one such Object per line, in line order
C24_SingleUnnamedBlock ==
    (pc = "decoded" /\ C24_OneUnnamed(Strip(TextOf(input)))) =>
        LET t == Strip(TextOf(input))
            m == FindHeaders(t, 1)[1]
        IN  C24_Block(HeaderKeys(m.cols), DataLines(SubSeq(t, m.stop + 1, Len(t))), out)

\* C24 witness: the text {a,b} / x,y / x has been decoded to the list of the
\* two rows, the second one without the column b
C24_Witness ==
    /\ pc = "decoded"
    /\ input = Text(<<"{", "a", ",", "b", "}", "\n", "x", ",", "y", "\n", "x">>)
    /\ C24_OneUnnamed(input.s)
    /\ out = VList(<<VObj(<<KeyA, KeyB>>, <<VStr(<<"x">>), VStr(<<"y">>)>>),
                     VObj(<<KeyA>>, <<VStr(<<"x">>)>>)>>)

\* the trimmed text t goes past the [ ] shortcut and decode finds several
\* headers, or one header that has a name
C25_Keyed(t) ==
    /\ ~C21_IsList(t)
    /\ \/ Len(FindHeaders(t, 1)) > 1
       \/ Len(FindHeaders(t, 1)) = 1 /\ FindHeaders(t, 1)[1].name # <<>>

\* C25: when decode finds several headers, or a single header that has a
\* name, the result is an Object with one key per header name; the body of a
\* header runs from the end of its header line to the start of the next
\* header line or to the end of the text, and the value under the name is an
\* Object when the body has one non-empty line and a List of Objects when it
\* has several; a single named header is never decoded to the bare table
C25_KeyedBlocks ==
    (pc = "decoded" /\ C25_Keyed(Strip(TextOf(input)))) =>
        LET t       == Strip(TextOf(input))
            ms      == FindHeaders(t, 1)
            name(i) == IF ms[i].name = <<>> THEN NoneKey ELSE ms[i].name
            body(i) == SubSeq(t, ms[i].stop + 1,
                              IF i < Len(ms) THEN ms[i + 1].start - 1 ELSE Len(t))
            firsts  == {i \in 1..Len(ms) : \A j \in 1..(i - 1) : name(j) # name(i)}
        IN  /\ out.t = "obj"
            /\ Len(out.keys) = Cardinality(firsts)
            /\ \A k \in 1..Len(out.keys) :
                   /\ out.keys[k] = name(C17_Nth(firsts, k))
                   /\ LET i == SetMax({j \in 1..Len(ms) : name(j) = out.keys[k]})
                      IN  C24_Block(HeaderKeys(ms[i].cols), DataLines(body(i)),
                                    out.vals[k])

\* C25 witness: the text u{a,b} / x,y / v_{a} has been decoded to an Object
\* with the one row of u as an Object and the empty List under v_
C25_Witness ==
    /\ pc = "decoded"
    /\ input = Text(<<"u", "{", "a", ",", "b", "}", "\n", "x", ",", "y", "\n",
                      "v", "_", "{", "a", "}">>)
    /\ C25_Keyed(input.s)
    /\ out = VObj(<<<<"u">>, <<"v", "_">>>>,
                  <<VObj(<<KeyA, KeyB>>, <<VStr(<<"x">>), VStr(<<"y">>)>>), VList(<<>>)>>)

(***************************************************************************)
(* validate_toon, one turn of its loop at a time                           *)
(***************************************************************************)
\* u{a,b} / blank / x / v_{a} / x,y: a row after a blank line, then a row
\* that does not fit the second header
BlankThenRow ==
    <<"u", "{", "a", ",", "b", "}", "\n", "\n", "x", "\n",
      "v", "_", "{", "a", "}", "\n", "x", ",", "y">>

\* U1{a} / x,y / blank / u{a,b} / x: a header name that validate does not
\* take, and a short row under a header it takes
UpperThenShort ==
    <<"U", "1", "{", "a", "}", "\n", "x", ",", "y", "\n", "\n",
      "u", "{", "a", ",", "b", "}", "\n", "x">>

LoopTexts == LineTexts \cup {BlankThenRow, UpperThenShort}

\* lines 359-368: the text is stripped; an empty text returns True at once,
\* any other is split into lines and the loop starts with no section
LoopEnter ==
    /\ pc = "call"
    /\ IF Strip(input.s) = <<>>
       THEN /\ pc' = "validated"
            /\ out' = [t |-> "true"]
            /\ UNCHANGED frames
       ELSE /\ pc' = "loop"
            /\ frames' = <<[lines |-> SplitLines(Strip(input.s)), vst |-> ValInit]>>
            /\ UNCHANGED out
    /\ UNCHANGED <<input, back, calls, cache>>

\* lines 370-389: one turn of the loop, on the next line
LoopTurn ==
    /\ pc = "loop"
    /\ frames[1].vst.result.t = "running"
    /\ frames[1].vst.i < Len(frames[1].lines)
    /\ frames' = <<[frames[1] EXCEPT !.vst = ValStep(frames[1].vst, frames[1].lines)]>>
    /\ UNCHANGED <<input, pc, out, back, calls, cache>>

\* line 387 or line 391: the ValueError leaves the call, or the loop is over
\* and the call returns True
LoopExit ==
    /\ pc = "loop"
    /\ \/ /\ frames[1].vst.result.t = "raise"
          /\ out' = frames[1].vst.result
       \/ /\ frames[1].vst.result.t = "running"
          /\ frames[1].vst.i >= Len(frames[1].lines)
          /\ out' = [t |-> "true"]
    /\ pc' = "validated"
    /\ UNCHANGED <<input, back, calls, frames, cache>>

InitLoop ==
    /\ input \in {Text(s) : s \in LoopTexts}
    /\ pc = "call"
    /\ out = NoRes
    /\ back = NoRes
    /\ NoThreads
    /\ NoCache

NextLoop == LoopEnter \/ LoopTurn \/ LoopExit

\* validate_toon on a text, line by line
SpecLoop == InitLoop /\ [][NextLoop]_vars

\* the position of the opening brace of a line that starts with a section
\* name of lower-case letters and underscores, 0 when there is none
C26_Brace(line) ==
    LET os == {o \in 2..Len(line) :
                  line[o] = "{" /\ \A i \in 1..(o - 1) : line[i] \in LowerLetters \cup {"_"}}
    IN  IF os = {} THEN 0 ELSE SetMin(os)

\* the line is a section name of lower-case letters and underscores, then a
\* brace-enclosed list of identifiers separated by commas, and nothing else
C26_HeaderLine(line) == C26_Brace(line) > 0 /\ C22_HeaderLine(line)

\* the number of columns a header line declares
C26_Columns(line) ==
    Len(SplitOn(SubSeq(line, C26_Brace(line) + 1, Len(line) - 1), ","))

\* C26: in validate, a header line sets the active section and the expected
\* column count, a blank line clears the active section, and every non-blank
\* line met while no section is active is accepted without any check until
\* the next header line; only section names made of lower-case letters and
\* underscores are headers for validate
C26_SectionTracking ==
    [][(pc = "loop" /\ pc' = "loop") =>
          LET st   == frames[1].vst
              nx   == frames'[1].vst
              line == Strip(frames[1].lines[st.i + 1])
          IN  /\ nx.i = st.i + 1
              /\ line = <<>> =>
                    /\ nx.current_section = <<>>
                    /\ nx.result.t = "running"
              /\ C26_HeaderLine(line) =>
                    /\ nx.current_section = SubSeq(line, 1, C26_Brace(line) - 1)
                    /\ nx.expected_cols = C26_Columns(line)
                    /\ nx.result.t = "running"
              /\ (line # <<>> /\ C26_Brace(line) = 0) =>
                    /\ nx.current_section = st.current_section
                    /\ nx.expected_cols = st.expected_cols
              /\ (line # <<>> /\ st.current_section = <<>>) =>
                    nx.result.t = "running"]_vars

\* C26 witness: on u{a,b} / blank / x / v_{a} / x,y the loop has passed the
\* header, the blank line and the one-field row, and no section is active
C26_Witness ==
    /\ pc = "loop"
    /\ input = Text(BlankThenRow)
    /\ frames[1].vst.i = 3
    /\ frames[1].vst.current_section = <<>>
    /\ frames[1].vst.expected_cols = 2
    /\ frames[1].vst.result.t = "running"

\* C27: validate accepts every text that encode produces: for every
\* top-level List or Object, each data row of each named block of the
\* encoded text splits into exactly as many fields as the header of the
\* block has columns, rows whose last cell is an empty String included, so
\* validate(encode(v)) succeeds
C27_ValidateAcceptsEncoded ==
    (pc = "checked" /\ input.t \in {"list", "obj"}) => back = [t |-> "true"]

\* C27, what holds of the code: validate rejects an encoded text only at a
\* row that the Tokenizer splits into fewer fields than the header has
\* columns
C27_RejectsOnlyShortRows ==
    (pc = "checked" /\ input.t \in {"list", "obj"}) =>
        \/ back = [t |-> "true"]
        \/ back.t = "raise" /\ back.exc = "ValueError" /\ back.actual < back.expected

\* C28: the scalar codec round-trips strings: for every String s,
\* parse_value(encode_value(s)) is the String s itself, never a Null, Bool,
\* Int, Float, List or Object and never a different string; this covers the
\* empty string, strings with leading or trailing whitespace, strings that
\* start with a digit and contain a double quote, and strings with a
\* backslash
C28_StringRoundTrip ==
    (pc = "reparsed" /\ input.t = "str") => back = input

\* the string s holds a backslash followed by a double quote
C28_HasEscapedQuote(s) == \E i \in 1..(Len(s) - 1) : s[i] = "\\" /\ s[i + 1] = "\""

\* the string s starts like a number: an optional minus sign, then a digit
C28_NumberLike(s) ==
    \/ Len(s) >= 1 /\ s[1] \in Digits
    \/ Len(s) >= 2 /\ s[1] = "-" /\ s[2] \in Digits

\* C28, what holds of the code: the round trip on every string that is not
\* empty, has no whitespace at either end, and is not a number-like string
\* holding a backslash followed by a double quote
C28_RoundTripAsCoded ==
    (/\ pc = "reparsed" /\ input.t = "str"
     /\ input.s # <<>> /\ Strip(input.s) = input.s
     /\ ~(C28_NumberLike(input.s) /\ C28_HasEscapedQuote(input.s)))
        => back = input

\* the non-blank lines of the text t that lie after position lo and end at
\* or before position hi, trimmed, in text order
C29_Rows(t, lo, hi) ==
    LET starts == {sp[1] : sp \in {sq \in C22_LineSpans(t) :
                                      /\ sq[1] > lo /\ sq[2] <= hi
                                      /\ Strip(SubSeq(t, sq[1], sq[2])) # <<>>}}
        stop(p) == CHOOSE q \in p..hi : <<p, q>> \in C22_LineSpans(t)
    IN  [k \in 1..Cardinality(starts) |->
            Strip(SubSeq(t, C17_Nth(starts, k), stop(C17_Nth(starts, k))))]

\* the block of the value v under a top-level key starts with a header
C29_HeaderBlock(v) ==
    \/ IsDict(v) /\ v.keys # <<>>
    \/ IsList(v) /\ v.items # <<>> /\ IsDict(v.items[1]) /\ v.items[1].keys # <<>>

\* the columns of that header
C29_Columns(v) == IF IsDict(v) THEN v.keys ELSE v.items[1].keys

\* the block of the value v under a top-level key is one `name: value` line
\* or one `name[...]` line
C29_LineBlock(v) ==
    /\ ~IsDict(v)
    /\ IsList(v) => (v.items # <<>> /\ ~IsDict(v.items[1]))

\* the rows of the value that decode stored under a header name
C29_RowsOf(val) == IF IsDict(val) THEN <<val>> ELSE val.items

\* C29: in the multi-header path of decode, every non-blank line between a
\* header and the next header becomes a data row of that header's section
\* whatever its form, so a `name: value` line or a `name[...]` line that
\* encode emitted for a later top-level key is decoded as an extra row of
\* the preceding block and that key is absent from the result; a header
\* followed by no data line decodes to an empty List; and a row with fewer
\* fields than columns yields an Object lacking the trailing columns while
\* fields beyond the columns are dropped
C29_LinesBecomeRows ==
    (pc = "decoded" /\ out.t = "text" /\ C25_Keyed(Strip(out.s))) =>
        LET t       == Strip(out.s)
            ms      == FindHeaders(t, 1)
            name(i) == IF ms[i].name = <<>> THEN NoneKey ELSE ms[i].name
            hi(i)   == IF i < Len(ms) THEN ms[i + 1].start - 1 ELSE Len(t)
            rows(i) == C29_Rows(t, ms[i].stop, hi(i))
            last    == {i \in 1..Len(ms) : \A j \in (i + 1)..Len(ms) : name(j) # name(i)}
        IN  /\ back.t = "obj"
            /\ \A i \in last :
                   LET val == DictGet(back, name(i))
                   IN  /\ C24_Block(HeaderKeys(ms[i].cols), rows(i), val)
                       /\ rows(i) = <<>> => val = VList(<<>>)
                       /\ \A r \in 1..Len(rows(i)) :
                              Len(C29_RowsOf(val)[r].keys)
                                  <= Len(_split_top_level_commas(rows(i)[r]))
            /\ IsDict(input) =>
                   \A j \in 2..Len(input.keys) :
                       (/\ C29_LineBlock(input.vals[j])
                        /\ \E i \in 1..(j - 1) : C29_HeaderBlock(input.vals[i])) =>
                           LET i   == SetMax({h \in 1..(j - 1) : C29_HeaderBlock(input.vals[h])})
                               val == DictGet(back, input.keys[i])
                           IN  /\ \A k \in 1..Len(back.keys) : back.keys[k] # input.keys[j]
                               /\ \E r \in 1..Len(C29_RowsOf(val)) :
                                      C24_Pairs(C29_Columns(input.vals[i]),
                                                C9_Block(input.keys[j], input.vals[j]),
                                                C29_RowsOf(val)[r])

\* C29 witness: {tags: [{a: 1}], meta: "x"} was written as tags{a} / 1 /
\* blank / meta: x and decoded to {tags: [{a: 1}, {a: "meta: x"}]}
C29_Witness ==
    /\ pc = "decoded"
    /\ input = VObj(<<KeyTags, KeyMeta>>,
                    <<VList(<<VObj(<<KeyA>>, <<VInt(<<"1">>)>>)>>), VStr(<<"x">>)>>)
    /\ out = Text(<<"t", "a", "g", "s", "{", "a", "}", "\n", "1", "\n", "\n",
                    "m", "e", "t", "a", ":", " ", "x">>)
    /\ back = VObj(<<KeyTags>>,
                   <<VList(<<VObj(<<KeyA>>, <<VInt(<<"1">>)>>),
                             VObj(<<KeyA>>, <<VStr(<<"m", "e", "t", "a", ":", " ", "x">>)>>)>>)>>)

\* the position in the text t of the first character of its k-th line
C30_LineStart(t, k) ==
    CHOOSE p \in 1..(Len(t) + 1) :
        /\ p = 1 \/ t[p - 1] = LineBreak
        /\ Cardinality({q \in 1..(p - 1) : t[q] = LineBreak}) = k - 1

\* the k-th line of the text t, which reads `line`, is one that decode takes
\* as a header
C30_DecodeHeader(t, k, line) ==
    \E m \in C23_Matched(t) :
        /\ m[1] = C30_LineStart(t, k)
        /\ m[2] = m[1] + Len(line) - 1

\* the number of columns between the braces of a header line
C30_Columns(line) ==
    LET o == CHOOSE i \in 1..Len(line) : line[i] = "{" /\ \A j \in 1..(i - 1) : line[j] # "{"
    IN  Len(SplitOn(SubSeq(line, o + 1, Len(line) - 1), ","))

\* C30: decode and validate agree on which lines are headers: every line
\* that decode recognises as a header also sets the active section in
\* validate, so the rows decode assigns to a header are the rows validate
\* checks against that header; this includes headers without a name and
\* headers whose name contains an upper-case letter or a digit
C30_HeadersAgree ==
    [][(pc = "loop" /\ pc' = "loop") =>
          LET st   == frames[1].vst
              nx   == frames'[1].vst
              line == frames[1].lines[st.i + 1]
          IN  C30_DecodeHeader(Strip(input.s), st.i + 1, line) =>
                  /\ nx.current_section # <<>>
                  /\ nx.expected_cols = C30_Columns(line)]_vars

\* C30, what holds of the code: the same for the headers of decode whose
\* name is made of lower-case letters and underscores
C30_LowerHeadersAgree ==
    [][(pc = "loop" /\ pc' = "loop") =>
          LET st   == frames[1].vst
              nx   == frames'[1].vst
              line == frames[1].lines[st.i + 1]
          IN  (/\ C30_DecodeHeader(Strip(input.s), st.i + 1, line)
               /\ C26_Brace(line) > 0) =>
                  /\ nx.current_section = SubSeq(line, 1, C26_Brace(line) - 1)
                  /\ nx.expected_cols = C30_Columns(line)]_vars

====
